---- MODULE Spec2Model ----
(***************************************************************************)
(* Model of the workflow execution engine of shepherd03/work_flow:         *)
(* src/core/WorkflowExecutor.ts (validator, order builder, input resolver, *)
(* node executor, loop-body sub-executor, orchestrator) together with the  *)
(* loop-processor template of src/nodeTemplates/LoopNodeTemplate.tsx.      *)
(***************************************************************************)
EXTENDS Integers, Sequences, FiniteSets, TLC

(***************************************************************************)
(* JavaScript values.  Every value is a record of one shape, so that any   *)
(* two values can be compared: kind names the JS type, n carries a number  *)
(* or a boolean (1 / 0), s a string, keys/xs the own keys and the values   *)
(* of an object in insertion order, xs alone the elements of an array.     *)
(***************************************************************************)
Val(kind, n, s, keys, xs) == [kind |-> kind, n |-> n, s |-> s, keys |-> keys, xs |-> xs]
Undef == Val("undefined", 0, "", <<>>, <<>>)
Null == Val("null", 0, "", <<>>, <<>>)
Num(i) == Val("number", i, "", <<>>, <<>>)
Bool(b) == Val("boolean", IF b THEN 1 ELSE 0, "", <<>>, <<>>)
Str(t) == Val("string", 0, t, <<>>, <<>>)
Arr(items) == Val("array", 0, "", <<>>, items)
Obj(keys, xs) == Val("object", 0, "", keys, xs)
EmptyObj == Obj(<<>>, <<>>)

\* JS truthiness, as used by `a || b`, `!x` and `if (x)`.
Truthy(v) ==
    CASE v.kind = "undefined" -> FALSE
      [] v.kind = "null" -> FALSE
      [] v.kind = "number" -> v.n # 0
      [] v.kind = "boolean" -> v.n = 1
      [] v.kind = "string" -> v.s # ""
      [] OTHER -> TRUE

IsArray(v) == v.kind = "array"

HasKey(o, k) == \E i \in 1..Len(o.keys) : o.keys[i] = k

\* o[k]: the value stored under k, undefined when o has no such key.
Get(o, k) ==
    IF HasKey(o, k)
    THEN o.xs[CHOOSE i \in 1..Len(o.keys) : o.keys[i] = k]
    ELSE Undef

\* o[k] = v: overwrite in place, or append a new key.
Put(o, k, v) ==
    IF HasKey(o, k)
    THEN [o EXCEPT !.xs[CHOOSE i \in 1..Len(o.keys) : o.keys[i] = k] = v]
    ELSE [o EXCEPT !.keys = Append(@, k), !.xs = Append(@, v)]

RECURSIVE CopyEntries(_, _, _)

\* the fallback without the copy of the parent's other outputs
CopyEntriesNone(dst, src, i) == dst

\* Object.entries(src).forEach(([k, v]) => dst[k] = v)
CopyEntries(dst, src, i) ==
    IF i > Len(src.keys) THEN dst
    ELSE CopyEntries(Put(dst, src.keys[i], src.xs[i]), src, i + 1)

\* array.slice(0, n) for n >= 0
Slice(a, n) == Arr(SubSeq(a.xs, 1, IF n < Len(a.xs) THEN n ELSE Len(a.xs)))

Min(a, b) == IF a < b THEN a ELSE b

(***************************************************************************)
(* Node types.  The registry holds a template for the first four; a node   *)
(* without a type is handed to the engine as 'unknown', which has none.    *)
(***************************************************************************)
StartType == "workflow-start"
EndType == "workflow-end"
LoopProcessor == "loop-processor"
PlainType == "text-processor"
UnknownType == "unknown"
RegisteredTypes == {StartType, EndType, LoopProcessor, PlainType}
NodeTypes == RegisteredTypes \cup {UnknownType}

\* nodeRegistry.get(type) is defined
HasTemplate(type) == type \in RegisteredTypes

\* An absent parentNode / loopBodyNode pointer (falsy in JS).
NoNode == ""

(***************************************************************************)
(* The workflow document.  A node is {id, type, data} plus the pointers    *)
(* the engine reads through `node as any`: parentNode, loopBodyNode,       *)
(* isLoopBodyNode and loopContext.  An edge is read only through its       *)
(* source and target.                                                      *)
(***************************************************************************)
NoSelections == [present |-> FALSE, entries |-> <<>>]

NodeData(loopType, maxIterations, breakOnError, collectResults, selections) ==
    [loopType |-> loopType, maxIterations |-> maxIterations,
     breakOnError |-> breakOnError, collectResults |-> collectResults,
     parameterSelections |-> selections]

\* data of a node that is not a loop processor
PlainData == NodeData("", 0, FALSE, FALSE, NoSelections)

MkNode(id, type, parentNode, loopBodyNode, isLoopBodyNode, data) ==
    [id |-> id, type |-> type, parentNode |-> parentNode,
     loopBodyNode |-> loopBodyNode, isLoopBodyNode |-> isLoopBodyNode,
     loopContext |-> Undef, data |-> data]

MkEdge(source, target) == [source |-> source, target |-> target]

NodeIdsOf(nodes) == {nodes[i].id : i \in 1..Len(nodes)}

HasNode(nodes, id) == \E i \in 1..Len(nodes) : nodes[i].id = id

\* nodes.find(n => n.id === id), for an id that is present
FindNode(nodes, id) == nodes[CHOOSE i \in 1..Len(nodes) :
                                /\ nodes[i].id = id
                                /\ \A j \in 1..(i - 1) : nodes[j].id # id]

(***************************************************************************)
(* Graph Validator: validateWorkflow, hasCycles, getReachableNodes.        *)
(***************************************************************************)
\* adjacencyList.get(id) || []  -- the targets of the edges leaving id, in edge order
Adjacency(edges, id) ==
    LET out == SelectSeq(edges, LAMBDA e : e.source = id)
    IN  [i \in 1..Len(out) |-> out[i].target]

RECURSIVE dfs(_, _, _)
RECURSIVE dfsNeighbors(_, _, _, _)
\* st = [found, visited, recursionStack]; found is the value dfs returns
dfs(edges, nodeId, st) ==
    LET entered == [st EXCEPT !.visited = @ \cup {nodeId},
                              !.recursionStack = @ \cup {nodeId}]
        after == dfsNeighbors(edges, Adjacency(edges, nodeId), 1, entered)
    IN  IF after.found THEN after
        ELSE [after EXCEPT !.recursionStack = @ \ {nodeId}]

dfsNeighbors(edges, neighbors, k, st) ==
    IF k > Len(neighbors) THEN st
    ELSE IF neighbors[k] \notin st.visited
         THEN LET sub == dfs(edges, neighbors[k], st)
              IN  IF sub.found THEN sub
                  ELSE dfsNeighbors(edges, neighbors, k + 1, sub)
         ELSE IF neighbors[k] \in st.recursionStack
              THEN [st EXCEPT !.found = TRUE]
              ELSE dfsNeighbors(edges, neighbors, k + 1, st)

RECURSIVE hasCyclesFrom(_, _, _, _)
hasCyclesFrom(nodes, edges, i, st) ==
    IF i > Len(nodes) THEN FALSE
    ELSE IF nodes[i].id \notin st.visited
         THEN LET sub == dfs(edges, nodes[i].id, st)
              IN  IF sub.found THEN TRUE
                  ELSE hasCyclesFrom(nodes, edges, i + 1, sub)
         ELSE hasCyclesFrom(nodes, edges, i + 1, st)

\* hasCycles that starts its search at the first node only
hasCyclesFirstOnly(nodes, edges) ==
    IF Len(nodes) = 0 THEN FALSE
    ELSE dfs(edges, nodes[1].id,
             [found |-> FALSE, visited |-> {}, recursionStack |-> {}]).found

hasCycles(nodes, edges) ==
    hasCyclesFrom(nodes, edges, 1,
                  [found |-> FALSE, visited |-> {}, recursionStack |-> {}])

RECURSIVE reachableFrom(_, _, _)
\* the while loop of getReachableNodes over its queue
reachableFrom(edges, queue, reachable) ==
    IF queue = <<>> THEN reachable
    ELSE LET currentId == Head(queue)
         IN  IF currentId \in reachable
             THEN reachableFrom(edges, Tail(queue), reachable)
             ELSE LET seen == reachable \cup {currentId}
                      fresh == SelectSeq(Adjacency(edges, currentId),
                                         LAMBDA x : x \notin seen)
                  IN  reachableFrom(edges, Tail(queue) \o fresh, seen)

getReachableNodes(startNode, edges) == reachableFrom(edges, <<startNode.id>>, {})

\* The error texts of validateWorkflow, kept as tags.
ErrNoStart == "must-have-start"
ErrManyStart == "only-one-start"
ErrNoEnd == "must-have-end"
ErrManyEnd == "only-one-end"
ErrCycle == "no-cycles"
ErrUnreachable == "unreachable-nodes"

\* validateWorkflow without its fourth check (unreachable nodes pass)
validateWorkflowNoReachability(workflow) ==
    LET startNodes == SelectSeq(workflow.nodes, LAMBDA n : n.type = StartType)
        endNodes == SelectSeq(workflow.nodes, LAMBDA n : n.type = EndType)
        Fail(e) == [valid |-> FALSE, error |-> e, unreachable |-> <<>>]
    IN  IF Len(startNodes) = 0 THEN Fail(ErrNoStart)
        ELSE IF Len(startNodes) > 1 THEN Fail(ErrManyStart)
        ELSE IF Len(endNodes) = 0 THEN Fail(ErrNoEnd)
        ELSE IF Len(endNodes) > 1 THEN Fail(ErrManyEnd)
        ELSE IF hasCycles(workflow.nodes, workflow.edges) THEN Fail(ErrCycle)
        ELSE [valid |-> TRUE, error |-> "", unreachable |-> <<>>]

validateWorkflow(workflow) ==
    LET startNodes == SelectSeq(workflow.nodes, LAMBDA n : n.type = StartType)
        endNodes == SelectSeq(workflow.nodes, LAMBDA n : n.type = EndType)
        Fail(e, ids) == [valid |-> FALSE, error |-> e, unreachable |-> ids]
    IN  IF Len(startNodes) = 0 THEN Fail(ErrNoStart, <<>>)
        ELSE IF Len(startNodes) > 1 THEN Fail(ErrManyStart, <<>>)
        ELSE IF Len(endNodes) = 0 THEN Fail(ErrNoEnd, <<>>)
        ELSE IF Len(endNodes) > 1 THEN Fail(ErrManyEnd, <<>>)
        ELSE IF hasCycles(workflow.nodes, workflow.edges) THEN Fail(ErrCycle, <<>>)
        ELSE LET reachableNodes == getReachableNodes(startNodes[1], workflow.edges)
                 unreachableNodes == SelectSeq(workflow.nodes,
                                               LAMBDA n : n.id \notin reachableNodes)
             IN  IF Len(unreachableNodes) > 0
                 THEN Fail(ErrUnreachable,
                           [i \in 1..Len(unreachableNodes) |-> unreachableNodes[i].id])
                 ELSE [valid |-> TRUE, error |-> "", unreachable |-> <<>>]

(***************************************************************************)
(* Execution Order Builder: buildExecutionOrder.  The result carries the   *)
(* order built so far; processed is the set of ids in it.  The recursion   *)
(* of buildChainFromNode marks a node processed only after its parent      *)
(* chain returned, so a chain that comes back to a node still on the call  *)
(* stack recurses without end: the JS engine ends it with a RangeError     *)
(* (stack overflow), recorded here as overflow = TRUE.                     *)
(***************************************************************************)
RECURSIVE buildChainChildFirst(_, _, _, _)
\* buildChainFromNode with the push moved before the walk to the parent
buildChainChildFirst(nodes, nodeId, acc, callStack) ==
    IF nodeId \in NodeIdsOf(acc.order) THEN acc
    ELSE IF ~HasNode(nodes, nodeId) THEN acc
    ELSE LET node == FindNode(nodes, nodeId)
             pushed == [acc EXCEPT !.order = Append(@, node)]
         IN  IF node.parentNode # NoNode /\ node.parentNode \notin NodeIdsOf(pushed.order)
             THEN buildChainChildFirst(nodes, node.parentNode, pushed, callStack)
             ELSE pushed

RECURSIVE buildChainFromNode(_, _, _, _)
buildChainFromNode(nodes, nodeId, acc, callStack) ==
    IF acc.overflow THEN acc
    ELSE IF nodeId \in NodeIdsOf(acc.order) THEN acc
    ELSE IF ~HasNode(nodes, nodeId) THEN acc
    ELSE IF nodeId \in callStack THEN [acc EXCEPT !.overflow = TRUE]
    ELSE LET node == FindNode(nodes, nodeId)
             withParent ==
                 IF node.parentNode # NoNode /\ node.parentNode \notin NodeIdsOf(acc.order)
                 THEN buildChainFromNode(nodes, node.parentNode, acc,
                                         callStack \cup {nodeId})
                 ELSE acc
         IN  IF withParent.overflow THEN withParent
             ELSE IF nodeId \notin NodeIdsOf(withParent.order)
                  THEN [withParent EXCEPT !.order = Append(@, node)]
                  ELSE withParent

RECURSIVE buildChains(_, _, _, _)
\* for (const n of list) buildChainFromNode(n.id)
buildChains(nodes, list, i, acc) ==
    IF i > Len(list) THEN acc
    ELSE buildChains(nodes, list, i + 1,
                     buildChainFromNode(nodes, list[i].id, acc, {}))

\* buildExecutionOrder without the sweep over the nodes the roots did not reach
buildExecutionOrderRootsOnly(nodes) ==
    buildChains(nodes, SelectSeq(nodes, LAMBDA n : n.parentNode = NoNode), 1,
                [order |-> <<>>, overflow |-> FALSE])

\* buildExecutionOrder whose sweep forgets the processed set
buildExecutionOrderNoProcessed(nodes) ==
    [order |-> SelectSeq(nodes, LAMBDA n : n.parentNode = NoNode) \o nodes,
     overflow |-> FALSE]

buildExecutionOrder(nodes) ==
    LET rootNodes == SelectSeq(nodes, LAMBDA n : n.parentNode = NoNode)
        fromRoots == buildChains(nodes, rootNodes, 1,
                                 [order |-> <<>>, overflow |-> FALSE])
        \* the sweep skips processed nodes; buildChainFromNode does the same
    IN  buildChains(nodes, nodes, 1, fromRoots)

(***************************************************************************)
(* Execution results.  The timestamp is Date.now() and nothing reads it;   *)
(* it is left out.  error is "" when the result has no error field.        *)
(***************************************************************************)
MkResult(node, success, outputs, error) ==
    [nodeId |-> node.id, nodeType |-> node.type, success |-> success,
     outputs |-> outputs, error |-> error]

\* a set that drops the entries of the other nodes
SetResultOnly(results, id, result) == [k \in {id} |-> result]

\* nodeResults.set(id, result)
SetResult(results, id, result) ==
    [k \in (DOMAIN results) \cup {id} |-> IF k = id THEN result ELSE results[k]]

NoResults == [k \in {} |-> MkResult(MkNode("", "", "", "", FALSE, PlainData), FALSE, EmptyObj, "")]

(***************************************************************************)
(* Input Resolver: getNodeInputs(node).                                    *)
(***************************************************************************)
\* the forEach over Object.entries(parameterSelections)
RECURSIVE mapSelections(_, _, _, _, _)
\* a forEach that does not look at the binding's sourceNodeId
mapSelectionsAnyNode(inputs, entries, i, parentId, parentOutputs) ==
    IF i > Len(entries) THEN inputs
    ELSE LET selection == entries[i]
             outputKey == IF selection.sourceOutputKey # "" THEN selection.sourceOutputKey
                          ELSE "output"
             outputValue == Get(parentOutputs, outputKey)
             next == IF selection.source = "upstream" /\ outputValue # Undef
                     THEN Put(inputs, selection.paramKey, outputValue)
                     ELSE inputs
         IN  mapSelections(next, entries, i + 1, parentId, parentOutputs)

mapSelections(inputs, entries, i, parentId, parentOutputs) ==
    IF i > Len(entries) THEN inputs
    ELSE LET selection == entries[i]
             outputKey == IF selection.sourceOutputKey # "" THEN selection.sourceOutputKey
                          ELSE "output"
             outputValue == Get(parentOutputs, outputKey)
             next == IF /\ selection.source = "upstream"
                        /\ selection.sourceNodeId = parentId
                        /\ outputValue # Undef
                     THEN Put(inputs, selection.paramKey, outputValue)
                     ELSE inputs
         IN  mapSelections(next, entries, i + 1, parentId, parentOutputs)

getNodeInputs(node, results) ==
    IF node.parentNode = NoNode THEN EmptyObj
    ELSE IF node.parentNode \notin DOMAIN results THEN EmptyObj
    ELSE IF ~results[node.parentNode].success THEN EmptyObj
    ELSE LET parentResult == results[node.parentNode]
             loopContext == node.loopContext
         IN  IF node.isLoopBodyNode /\ Truthy(loopContext)
             THEN LET a == Put(EmptyObj, "element", Get(loopContext, "element"))
                      b == Put(a, "index", Get(loopContext, "index"))
                      c == Put(b, "array", Get(loopContext, "array"))
                      d == Put(c, "loopNodeId", Get(loopContext, "loopNodeId"))
                      e == Put(d, "input", Get(loopContext, "element"))
                  IN  Put(e, "inputArray", Arr(<<Get(loopContext, "element")>>))
             ELSE IF node.data.parameterSelections.present
                  THEN mapSelections(EmptyObj, node.data.parameterSelections.entries, 1,
                                     node.parentNode, parentResult.outputs)
                  ELSE LET output == Get(parentResult.outputs, "output")
                           base == IF output # Undef
                                   THEN Put(Put(EmptyObj, "input", output),
                                            "inputArray", output)
                                   ELSE EmptyObj
                       IN  CopyEntries(base, parentResult.outputs, 1)

\* getNodeInputs consults nodeResults for the parent exactly when parentNode is set
ReadsParent(node) == node.parentNode # NoNode

(***************************************************************************)
(* Templates.  The start, end and plain templates are collaborators of the *)
(* engine: an execute call either throws or returns one of a few output    *)
(* maps.  The end template returns the formatted inputs as finalOutput.    *)
(* The loop processor is modelled from its code below.                     *)
(***************************************************************************)
MaxLen == 2

\* an array [10, 20, ...] of k numbers (the element differs from its index)
ArrayOfLen(k) == Arr([i \in 1..k |-> Num(10 * i)])

SourceValues == {ArrayOfLen(k) : k \in 0..MaxLen} \cup {Num(7)}
PlainValues == {Num(0), Num(1)}

\* JSON.stringify(inputData, null, 2): the text that denotes v
Json(v) == Val("string", 0, "json", <<>>, <<v>>)

TemplateOutputs(type, inputs) ==
    CASE type = StartType -> {Obj(<<"output">>, <<v>>) : v \in SourceValues}
      [] type = EndType ->
            {Obj(<<"finalOutput", "rawInput", "completed">>,
                 <<Json(inputs), inputs, Bool(TRUE)>>)}
      [] OTHER -> {Obj(<<"output">>, <<v>>) : v \in PlainValues}

ErrTemplateThrew == "template-threw"
ErrExecutionFailed == "execution-failed"
\* what a template's execute throws or rejects with: an Error and its message,
\* or a value that is not an Error (here a text)
NoThrow == [isError |-> FALSE, text |-> ""]
ThrownValues ==
    {[isError |-> TRUE, text |-> ErrTemplateThrew], [isError |-> FALSE, text |-> "rejected-text"]}
\* error instanceof Error ? error.message : '执行失败'
errorMessage(thrown) == IF thrown.isError THEN thrown.text ELSE ErrExecutionFailed
ErrTemplateNotFound == "template-not-found"
ErrNotArray == "input-not-array"
ErrLoopType == "unsupported-loop-type"
ErrNodeFailed == "node-failed"
ErrStackOverflow == "stack-overflow"

(***************************************************************************)
(* The loop processor template (LoopNodeTemplate.tsx, execute).  A frame   *)
(* is the state of one execute call that is suspended in executeLoopBody.  *)
(***************************************************************************)
DefaultMaxIterations == 1000
LoopTypes == {"forEach", "map", "filter", "reduce"}

NoBodyNode == MkNode("", "", "", "", FALSE, PlainData)

\* a getLoopBodyNode that finds no loop-body node
getLoopBodyNodeNone(nodes, loopNodeId) == [found |-> FALSE, node |-> NoBodyNode]

\* context.getLoopBodyNode(loopNodeId) against the current workflow's nodes
getLoopBodyNode(nodes, loopNodeId) ==
    IF ~HasNode(nodes, loopNodeId) THEN [found |-> FALSE, node |-> NoBodyNode]
    ELSE LET loopNode == FindNode(nodes, loopNodeId)
         IN  IF loopNode.loopBodyNode = NoNode
             THEN [found |-> FALSE, node |-> NoBodyNode]
             ELSE IF HasNode(nodes, loopNode.loopBodyNode)
                  THEN [found |-> TRUE, node |-> FindNode(nodes, loopNode.loopBodyNode)]
                  ELSE [found |-> FALSE, node |-> NoBodyNode]

\* inputs.inputArray || inputs.input || []
LoopInputArray(inputs) ==
    IF Truthy(Get(inputs, "inputArray")) THEN Get(inputs, "inputArray")
    ELSE IF Truthy(Get(inputs, "input")) THEN Get(inputs, "input")
    ELSE Arr(<<>>)

\* the loop input without the maxIterations cut
ActualArrayUncapped(inputArray, data) == inputArray

\* inputArray.slice(0, nodeData.maxIterations || 1000)
ActualArray(inputArray, data) ==
    Slice(inputArray, IF data.maxIterations # 0 THEN data.maxIterations
                      ELSE DefaultMaxIterations)

\* the state of the switch statement when the first element is about to be processed
LoopFrame(node, inputs, body, actualArray) ==
    [node |-> node, inputs |-> inputs, hasBody |-> body.found, body |-> body.node,
     array |-> actualArray,
     i |-> IF node.data.loopType = "reduce" THEN 1 ELSE 0,
     result |-> CASE node.data.loopType = "reduce" ->
                         IF Len(actualArray.xs) > 0 THEN actualArray.xs[1] ELSE Null
                  [] node.data.loopType \in {"map", "filter"} -> Arr(<<>>)
                  [] OTHER -> Undef,
     collected |-> <<>>, processedCount |-> 0, errors |-> <<>>, stopped |-> FALSE,
     exprCalls |-> <<>>]

\* the for loop of the frame's case has ended (condition false, or break)
LoopDone(f) == f.stopped \/ f.i >= Len(f.array.xs)

\* actualArray[i]
LoopElement(f) == f.array.xs[f.i + 1]

\* the element argument of executeLoopBody: reduce wraps it with the accumulator
LoopBodyArgument(f) ==
    IF f.node.data.loopType = "reduce"
    THEN Obj(<<"element", "accumulator">>, <<LoopElement(f), f.result>>)
    ELSE LoopElement(f)

\* the try branch of one iteration, after `processed` came back
loopOnValue(f, processed) ==
    LET t == f.node.data.loopType
        g == [f EXCEPT !.processedCount = @ + 1, !.i = @ + 1]
    IN  CASE t = "forEach" ->
                 IF f.node.data.collectResults
                 THEN [g EXCEPT !.collected = Append(@, processed)] ELSE g
          [] t = "map" -> [g EXCEPT !.result = Arr(Append(f.result.xs, processed))]
          [] t = "filter" ->
                 IF Truthy(processed)
                 THEN [g EXCEPT !.result = Arr(Append(f.result.xs, LoopElement(f)))]
                 ELSE g
          [] OTHER -> [g EXCEPT !.result = processed]

\* a catch branch without `if (nodeData.breakOnError) break`
loopOnErrorNoBreak(f) ==
    LET noted == [f EXCEPT !.errors = Append(@, Val("string", f.i, "item-failed", <<>>, <<>>))]
    IN  IF f.node.data.loopType = "map"
        THEN [noted EXCEPT !.result = Arr(Append(f.result.xs, Null)), !.i = @ + 1]
        ELSE [noted EXCEPT !.i = @ + 1]

\* the catch branch of one iteration
loopOnError(f) ==
    LET noted == [f EXCEPT !.errors = Append(@, Val("string", f.i, "item-failed", <<>>, <<>>))]
    IN  IF f.node.data.breakOnError THEN [noted EXCEPT !.stopped = TRUE]
        ELSE IF f.node.data.loopType = "map"
             THEN [noted EXCEPT !.result = Arr(Append(f.result.xs, Null)), !.i = @ + 1]
             ELSE [noted EXCEPT !.i = @ + 1]

\* processLoopElement with no custom function and a blank expression: the element
processLoopElement(element, accumulator) == element

RECURSIVE runExpressionLoop(_)
\* the whole for loop on the expression path (no loop-body node)
runExpressionLoop(f) ==
    IF LoopDone(f) THEN f
    ELSE runExpressionLoop(
             [loopOnValue(f, processLoopElement(LoopElement(f), f.result))
                 EXCEPT !.exprCalls = Append(@, [loopNodeId |-> f.node.id, index |-> f.i])])

\* the object the loop template returns
loopOutputs(f) ==
    LET result == IF f.node.data.loopType = "forEach"
                  THEN (IF f.node.data.collectResults THEN Arr(f.collected) ELSE f.array)
                  ELSE f.result
    IN  Obj(<<"output", "processedCount", "totalCount", "errors", "loopType">>,
            <<result, Num(f.processedCount), Num(Len(f.array.xs)),
              IF Len(f.errors) > 0 THEN Arr(f.errors) ELSE Undef,
              Str(f.node.data.loopType)>>)

(***************************************************************************)
(* Loop Body Sub-Executor: executeLoopBody.                                *)
(***************************************************************************)
\* loopBodyNodeWithContext = {...loopBodyNode, loopContext, isLoopBodyNode: true}
withLoopContext(loopNodeId, loopBodyNode, element, index, array) ==
    [loopBodyNode EXCEPT
        !.loopContext = Obj(<<"element", "index", "array", "loopNodeId">>,
                            <<element, Num(index), array, Str(loopNodeId)>>),
        !.isLoopBodyNode = TRUE]

\* an executeLoopBody that sets loopContext and isLoopBodyNode on the node itself
nodeAfterLoopBodyInPlace(loopBodyNode, loopBodyNodeWithContext) == loopBodyNodeWithContext

\* the caller's node object after executeLoopBody: the spread made a new object
\* for the context, nothing was assigned to loopBodyNode
nodeAfterLoopBody(loopBodyNode, loopBodyNodeWithContext) == loopBodyNode

\* the caller's workflow after an executeNode call for node; a call made by
\* executeLoopBody is the only one that builds its node from a workflow node
workflowAfterNode(workflow, inLoop, node) ==
    IF ~inLoop THEN workflow
    ELSE [workflow EXCEPT !.nodes =
             [i \in 1..Len(workflow.nodes) |->
                 IF workflow.nodes[i].id = node.id
                 THEN nodeAfterLoopBody(workflow.nodes[i], node)
                 ELSE workflow.nodes[i]]]

\* return result.outputs.output || result.outputs
loopBodyReturn(outputs) ==
    IF Truthy(Get(outputs, "output")) THEN Get(outputs, "output") ELSE outputs

\* what the suspended loop does with the outcome of its executeLoopBody call
resumeLoop(f, outcome) ==
    IF outcome.threw \/ ~outcome.result.success THEN loopOnError(f)
    ELSE loopOnValue(f, loopBodyReturn(outcome.result.outputs))

(***************************************************************************)
(* The workflows handed to executeWorkflow.  Nodes n1..nN in list order;   *)
(* every node has any type and any single parent; the edges are the        *)
(* connections that set the parent pointers (one edge parent -> node per   *)
(* pointer, as the editor's onConnect records them).  On the graphs that   *)
(* pass validation the loop processor's configuration and its loop-body    *)
(* pointer vary too; the body of a loop node is one of its children and    *)
(* carries isLoopBodyNode.                                                 *)
(***************************************************************************)
NodeNames == <<"n1", "n2", "n3", "n4">>

LoopDatas ==
    {NodeData(t, m, b, c, NoSelections) :
        t \in LoopTypes, m \in {0, 1}, b \in BOOLEAN, c \in BOOLEAN}
    \ {NodeData(t, m, b, TRUE, NoSelections) :
        t \in LoopTypes \ {"forEach"}, m \in {0, 1}, b \in BOOLEAN}

DefaultLoopData == NodeData("map", 0, FALSE, FALSE, NoSelections)

ParentEdges(nodes) ==
    LET linked == SelectSeq(nodes, LAMBDA n : n.parentNode # NoNode)
    IN  [i \in 1..Len(linked) |-> MkEdge(linked[i].parentNode, linked[i].id)]

MkWorkflow(nodes) == [nodes |-> nodes, edges |-> ParentEdges(nodes)]

BaseNodes(N, types, parents) ==
    [i \in 1..N |-> MkNode(NodeNames[i], types[i], parents[i], NoNode, FALSE,
                           IF types[i] = LoopProcessor THEN DefaultLoopData ELSE PlainData)]

ParentChoices(N) ==
    {p \in [1..N -> {NoNode} \cup {NodeNames[j] : j \in 1..N}] :
        \A i \in 1..N : p[i] # NodeNames[i]}

\* the loop nodes of a list, and the ways to configure one of them
LoopIndexes(nodes) == {i \in 1..Len(nodes) : nodes[i].type = LoopProcessor}
ChildrenOf(nodes, id) == {nodes[j].id : j \in {k \in 1..Len(nodes) : nodes[k].parentNode = id}}

Configure(nodes, i, data, bodyId) ==
    [j \in 1..Len(nodes) |->
        IF j = i THEN [nodes[j] EXCEPT !.data = data, !.loopBodyNode = bodyId]
        ELSE IF nodes[j].id = bodyId THEN [nodes[j] EXCEPT !.isLoopBodyNode = TRUE]
        ELSE nodes[j]]

Configured(nodes) ==
    IF ~validateWorkflow(MkWorkflow(nodes)).valid \/ Cardinality(LoopIndexes(nodes)) # 1
    THEN {nodes}
    ELSE LET i == CHOOSE k \in LoopIndexes(nodes) : TRUE
         IN  {Configure(nodes, i, data, bodyId) :
                 data \in LoopDatas,
                 bodyId \in {NoNode} \cup ChildrenOf(nodes, nodes[i].id)}

(***************************************************************************)
(* The executor.                                                           *)
(***************************************************************************)
VARIABLES
    nodeResults,      \* workflowContext.nodeResults
    currentWorkflow,  \* this.currentWorkflow
    pc,               \* "idle": no executeWorkflow call in progress; "running"
    order,            \* executionOrder of the call in progress
    idx,              \* position of the for loop over executionOrder
    finalOutput,      \* the local finalOutput of executeWorkflow
    stack,            \* the suspended loop-processor execute calls, innermost last
    ret,              \* what the last executeWorkflow call returned
    runs,             \* number of executeWorkflow calls made on this executor
    atCall,           \* nodeResults as it was when the call in progress (or last call) began
    log,              \* what the call did: template calls, writes, parent reads, body calls
    twin,             \* the finished run of another fresh executor on the same workflow
    editor,           \* the editor's React state: its nodes and its edges
    suspended         \* the locals of another executeWorkflow call on this executor
                      \* that is not running now: not started, awaiting, or returned

vars == <<nodeResults, currentWorkflow, pc, order, idx, finalOutput, stack, ret,
          runs, atCall, log, twin, editor, suspended>>

NoWorkflow == [nodes |-> <<>>, edges |-> <<>>]
EmptyLog ==
    [executed |-> <<>>, writes |-> <<>>, reads |-> <<>>, bodyCalls |-> <<>>, events |-> <<>>,
     thrown |-> NoThrow, exprCalls |-> <<>>, given |-> NoWorkflow]

\* the workflow the call was given
LogGiven(l, workflow) == [l EXCEPT !.given = workflow]

NotReturned ==
    [state |-> "none", success |-> FALSE, results |-> NoResults,
     hasFinalOutput |-> FALSE, finalOutput |-> Undef, error |-> <<>>]

\* return {success: true, results, finalOutput}
returnSuccess(results, final) ==
    [state |-> "returned", success |-> TRUE, results |-> results,
     hasFinalOutput |-> TRUE, finalOutput |-> final, error |-> <<>>]

\* executeWorkflow without its try/catch: the error leaves the call
rethrowError(results, error) ==
    [state |-> "threw", success |-> FALSE, results |-> results,
     hasFinalOutput |-> FALSE, finalOutput |-> Undef, error |-> error]

\* the catch block of executeWorkflow: return {success: false, results, error}
catchError(results, error) ==
    [state |-> "returned", success |-> FALSE, results |-> results,
     hasFinalOutput |-> FALSE, finalOutput |-> Undef, error |-> error]

(***************************************************************************)
(* The editor (WorkflowEditor): its nodes carry the pointers parentNode,   *)
(* loopBodyNode and isLoopBodyNode beside id, type and data; its edges are *)
(* React Flow edges, identified by source, sourceHandle, target and        *)
(* targetHandle.                                                           *)
(***************************************************************************)
NoEditor == [nodes |-> <<>>, edges |-> <<>>]

EditorEdge(source, sourceHandle, target) ==
    [source |-> source, sourceHandle |-> sourceHandle, target |-> target,
     targetHandle |-> "input"]

\* the connections the canvas can offer: the loop-body handle is a handle of
\* the loop processor's node
Connections(nodes) ==
    {EditorEdge(nodes[i].id, h, nodes[j].id) :
        i \in 1..Len(nodes), j \in 1..Len(nodes), h \in {"output", "loop-body"}}
    \ {EditorEdge(nodes[i].id, "loop-body", nodes[j].id) :
        i \in {k \in 1..Len(nodes) : nodes[k].type # LoopProcessor}, j \in 1..Len(nodes)}

\* validateConnection(connection).allowed
validateConnection(nodes, connection) ==
    /\ HasNode(nodes, connection.source) /\ HasNode(nodes, connection.target)
    /\ LET targetNode == FindNode(nodes, connection.target)
       IN  ~(targetNode.parentNode # NoNode /\ targetNode.parentNode # connection.source)
    /\ connection.source # connection.target
    /\ HasTemplate(FindNode(nodes, connection.source).type)
    /\ HasTemplate(FindNode(nodes, connection.target).type)

\* isValidConnection(connection)
isValidConnection(nodes, connection) ==
    /\ connection.source # connection.target
    /\ validateConnection(nodes, connection)

\* React Flow's addEdge: an edge with the same ends and handles is not added twice
addEdge(edge, edges) == IF \E k \in 1..Len(edges) : edges[k] = edge THEN edges
                        ELSE Append(edges, edge)

\* the setNodes of onConnect
connectNodes(nodes, params) ==
    LET isLoopBodyConnection == params.sourceHandle = "loop-body"
    IN  [i \in 1..Len(nodes) |->
            IF nodes[i].id = params.target
            THEN IF isLoopBodyConnection
                 THEN [nodes[i] EXCEPT !.parentNode = params.source, !.isLoopBodyNode = TRUE]
                 ELSE [nodes[i] EXCEPT !.parentNode = params.source]
            ELSE IF nodes[i].id = params.source /\ isLoopBodyConnection
                 THEN [nodes[i] EXCEPT !.loopBodyNode = params.target]
                 ELSE nodes[i]]

\* the nodes the editor starts with: dropped on the canvas, not connected
EditorTypes == <<StartType, LoopProcessor, EndType>>
DroppedNodes ==
    [i \in 1..Len(EditorTypes) |->
        MkNode(NodeNames[i], EditorTypes[i], NoNode, NoNode, FALSE,
               IF EditorTypes[i] = LoopProcessor THEN DefaultLoopData ELSE PlainData)]

\* the locals of a call that has not started
NoCall == [pc |-> "idle", order |-> <<>>, idx |-> 0, finalOutput |-> Null, stack |-> <<>>,
           ret |-> NotReturned, atCall |-> NoResults, log |-> EmptyLog]

\* no other run to compare with
NoTwin == [active |-> FALSE, workflow |-> NoWorkflow, events |-> <<>>, ret |-> NotReturned]

\* new WorkflowExecutor(workflowId)
Init ==
    /\ nodeResults = NoResults
    /\ currentWorkflow = NoWorkflow
    /\ pc = "idle"
    /\ order = <<>>
    /\ idx = 0
    /\ finalOutput = Null
    /\ stack = <<>>
    /\ ret = NotReturned
    /\ runs = 0
    /\ atCall = NoResults
    /\ log = EmptyLog
    /\ twin = NoTwin
    /\ editor = NoEditor
    /\ suspended = NoCall

\* executeWorkflow that starts every call from an empty result map
executeWorkflowClearing(workflow) ==
    /\ pc = "idle"
    /\ currentWorkflow' = workflow
    /\ runs' = runs + 1
    /\ atCall' = nodeResults
    /\ log' = EmptyLog
    /\ stack' = <<>>
    /\ finalOutput' = Null
    /\ nodeResults' = NoResults
    /\ UNCHANGED <<twin, editor, suspended>>
    /\ LET validationResult == validateWorkflow(workflow)
           built == buildExecutionOrder(workflow.nodes)
       IN  IF ~validationResult.valid
           THEN /\ ret' = catchError(NoResults, <<validationResult.error>>)
                /\ pc' = "idle" /\ order' = <<>> /\ idx' = 0
           ELSE IF built.overflow
           THEN /\ ret' = catchError(NoResults, <<ErrStackOverflow>>)
                /\ pc' = "idle" /\ order' = <<>> /\ idx' = 0
           ELSE IF Len(built.order) = 0
           THEN /\ ret' = returnSuccess(NoResults, Null)
                /\ pc' = "idle" /\ order' = <<>> /\ idx' = 0
           ELSE /\ ret' = NotReturned
                /\ pc' = "running" /\ order' = built.order /\ idx' = 1

\* executeWorkflow(workflow) up to its first executeNode call
executeWorkflow(workflow) ==
    /\ pc = "idle"
    /\ currentWorkflow' = workflow
    /\ runs' = runs + 1
    /\ atCall' = nodeResults
    /\ log' = LogGiven(EmptyLog, workflow)
    /\ stack' = <<>>
    /\ finalOutput' = Null
    /\ UNCHANGED <<nodeResults, twin, editor, suspended>>
    /\ LET validationResult == validateWorkflow(workflow)
           built == buildExecutionOrder(workflow.nodes)
       IN  IF ~validationResult.valid
           THEN /\ ret' = catchError(nodeResults, <<validationResult.error>>)
                /\ pc' = "idle" /\ order' = <<>> /\ idx' = 0
           ELSE IF built.overflow
           THEN /\ ret' = catchError(nodeResults, <<ErrStackOverflow>>)
                /\ pc' = "idle" /\ order' = <<>> /\ idx' = 0
           ELSE IF Len(built.order) = 0
           THEN /\ ret' = returnSuccess(nodeResults, Null)
                /\ pc' = "idle" /\ order' = <<>> /\ idx' = 0
           ELSE /\ ret' = NotReturned
                /\ pc' = "running" /\ order' = built.order /\ idx' = 1

\* the executeNode call that is about to start: the orchestrator's next node,
\* or the loop-body node of the innermost suspended loop with its context
InLoop == stack # <<>>
Top == stack[Len(stack)]
\* the loop node the context looks up for executeLoopBody is in the current workflow
LoopNodeKnown == InLoop => HasNode(currentWorkflow.nodes, Top.node.id)
CanCall == pc = "running" /\ (InLoop => (Top.hasBody /\ ~LoopDone(Top))) /\ LoopNodeKnown
\* the orchestrator goes on with its own node while a loop is suspended
TargetNoAwait == order[idx]

\* an orchestrator that walks the order from its other end on the twin executor
TargetOtherEnd ==
    IF InLoop
    THEN withLoopContext(Top.node.id, Top.body, LoopBodyArgument(Top), Top.i, Top.array)
    ELSE IF twin.active THEN order[Len(order) + 1 - idx] ELSE order[idx]

Target ==
    IF InLoop
    THEN withLoopContext(Top.node.id, Top.body, LoopBodyArgument(Top), Top.i, Top.array)
    ELSE order[idx]

Written == {log.writes[i] : i \in 1..Len(log.writes)}

Threw(node, error) == [threw |-> TRUE, result |-> MkResult(node, FALSE, EmptyObj, error)]
Came(result) == [threw |-> FALSE, result |-> result]
NoResult == MkResult(NoBodyNode, FALSE, EmptyObj, "")

LogCall(l, node, inputs) ==
    LET l1 == IF InLoop
              THEN [l EXCEPT !.bodyCalls = Append(@,
                        [loopNodeId |-> Top.node.id, bodyId |-> node.id,
                         element |-> LoopBodyArgument(Top), index |-> Top.i,
                         array |-> Top.array])]
              ELSE l
        l2 == IF HasTemplate(node.type) /\ ReadsParent(node)
              THEN [l1 EXCEPT !.reads = Append(@,
                        [node |-> node.id, parent |-> node.parentNode,
                         recorded |-> node.parentNode \in Written])]
              ELSE l1
        l3 == [l2 EXCEPT !.events = Append(@,
                  [kind |-> "start", nodeId |-> node.id, inLoop |-> InLoop,
                   inputs |-> inputs, result |-> NoResult, threw |-> FALSE])]
    IN  IF HasTemplate(node.type)
        THEN [l3 EXCEPT !.executed = Append(@,
                  [nodeId |-> node.id, inputs |-> inputs, inLoop |-> InLoop,
                   loopContext |-> node.loopContext])]
        ELSE l3

LogWrite(l, id) == [l EXCEPT !.writes = Append(@, id)]

\* the executeNode call for node, made from a loop body or not, ended with outcome
LogEnd(l, node, inLoop, outcome) ==
    [l EXCEPT !.events = Append(@,
        [kind |-> "end", nodeId |-> node.id, inLoop |-> inLoop,
         inputs |-> EmptyObj, result |-> outcome.result, threw |-> outcome.threw])]

\* the processLoopElement calls of a loop processor that ran on the expression path
LogExpr(l, calls) == [l EXCEPT !.exprCalls = @ \o calls]

\* what the template's execute threw in the call that just ended, if it threw
LogThrown(l, thrown) == [l EXCEPT !.thrown = thrown]

\* afterNode without the `node.type === 'workflow-end'` test
afterNodeAnyType(node, outcome, results) ==
    IF outcome.threw
    THEN [pc |-> "idle", idx |-> idx, finalOutput |-> finalOutput,
          ret |-> catchError(results, <<ErrTemplateNotFound, node.type>>)]
    ELSE IF ~outcome.result.success
    THEN [pc |-> "idle", idx |-> idx, finalOutput |-> finalOutput,
          ret |-> catchError(results, <<ErrNodeFailed, node.id, outcome.result.error>>)]
    ELSE LET final == Get(outcome.result.outputs, "finalOutput")
         IN  IF idx >= Len(order)
             THEN [pc |-> "idle", idx |-> idx, finalOutput |-> final,
                   ret |-> returnSuccess(results, final)]
             ELSE [pc |-> "running", idx |-> idx + 1, finalOutput |-> final,
                   ret |-> NotReturned]

\* afterNode without the `if (!result.success) throw`: the loop goes on
afterNodeIgnoresFailure(node, outcome, results) ==
    IF outcome.threw
    THEN [pc |-> "idle", idx |-> idx, finalOutput |-> finalOutput,
          ret |-> catchError(results, <<ErrTemplateNotFound, node.type>>)]
    ELSE LET final == IF node.type = EndType /\ outcome.result.success
                      THEN Get(outcome.result.outputs, "finalOutput")
                      ELSE finalOutput
         IN  IF idx >= Len(order)
             THEN [pc |-> "idle", idx |-> idx, finalOutput |-> final,
                   ret |-> returnSuccess(results, final)]
             ELSE [pc |-> "running", idx |-> idx + 1, finalOutput |-> final,
                   ret |-> NotReturned]

\* the orchestrator's for loop body after executeNode(node) came back with outcome,
\* through the return after the loop or the catch block
afterNode(node, outcome, results) ==
    IF outcome.threw
    THEN [pc |-> "idle", idx |-> idx, finalOutput |-> finalOutput,
          ret |-> catchError(results, <<ErrTemplateNotFound, node.type>>)]
    ELSE IF ~outcome.result.success
    THEN [pc |-> "idle", idx |-> idx, finalOutput |-> finalOutput,
          ret |-> catchError(results, <<ErrNodeFailed, node.id, outcome.result.error>>)]
    ELSE LET final == IF node.type = EndType
                      THEN Get(outcome.result.outputs, "finalOutput")
                      ELSE finalOutput
         IN  IF idx >= Len(order)
             THEN [pc |-> "idle", idx |-> idx, finalOutput |-> final,
                   ret |-> returnSuccess(results, final)]
             ELSE [pc |-> "running", idx |-> idx + 1, finalOutput |-> final,
                   ret |-> NotReturned]

\* hand the outcome of an executeNode call to its caller: the loop template
\* suspended below (callers is the stack without the callee), or the orchestrator
Deliver(callers, node, outcome, results) ==
    IF callers # <<>>
    THEN /\ stack' = [callers EXCEPT ![Len(callers)] = resumeLoop(@, outcome)]
         /\ UNCHANGED <<pc, idx, finalOutput, ret>>
    ELSE LET next == afterNode(node, outcome, results)
         IN  /\ stack' = <<>>
             /\ pc' = next.pc
             /\ idx' = next.idx
             /\ finalOutput' = next.finalOutput
             /\ ret' = next.ret

\* The template calls of a run that ended without a call in between: the node,
\* the inputs it was given and the result recorded for it.
TemplateCalls(events) ==
    {<<events[i].nodeId, events[i].inputs, events[i + 1].result>> :
        i \in {k \in 1..(Len(events) - 1) :
                  /\ events[k].kind = "start" /\ events[k + 1].kind = "end"
                  /\ events[k + 1].nodeId = events[k].nodeId
                  /\ ~events[k + 1].threw}}

\* every template is a function of the node and its inputs
DeterministicTemplates(calls) ==
    \A a, b \in calls : (a[1] = b[1] /\ a[2] = b[2]) => a[3] = b[3]

\* on the twin executor a template gives what it gave for the same node and inputs
SameAsTwin(node, inputs, result) ==
    twin.active =>
        \A c \in TemplateCalls(twin.events) : (c[1] = node.id /\ c[2] = inputs) => c[3] = result

\* executeNode(node) for a node whose template is not the loop processor:
\* lookup, input resolution, the template's execute, the recorded result
executePlainNode ==
    /\ CanCall
    /\ Target.type # LoopProcessor
    /\ LET node == Target
           inputs == getNodeInputs(node, nodeResults)
       IN  /\ IF ~HasTemplate(node.type)
              THEN /\ UNCHANGED nodeResults
                   /\ log' = LogEnd(LogCall(log, node, inputs), node, InLoop,
                                    Threw(node, ErrTemplateNotFound))
                   /\ Deliver(stack, node, Threw(node, ErrTemplateNotFound), nodeResults)
              ELSE \E ok \in BOOLEAN :
                   \E outputs \in (IF ok THEN TemplateOutputs(node.type, inputs) ELSE {EmptyObj}) :
                   \E thrown \in (IF ok THEN {NoThrow} ELSE ThrownValues) :
                      LET result == MkResult(node, ok, outputs,
                                             IF ok THEN "" ELSE errorMessage(thrown))
                          results == SetResult(nodeResults, node.id, result)
                      IN  /\ SameAsTwin(node, inputs, result)
                          /\ nodeResults' = results
                          /\ log' = LogThrown(LogEnd(LogWrite(LogCall(log, node, inputs), node.id),
                                                     node, InLoop, Came(result)), thrown)
                          /\ Deliver(stack, node, Came(result), results)
    /\ currentWorkflow' = workflowAfterNode(currentWorkflow, InLoop, Target)
    /\ UNCHANGED <<order, runs, atCall, twin, editor, suspended>>

\* executeNode(node) for a loop processor, up to its first executeLoopBody call;
\* without a loop-body node (or with a bad input) the call runs to its end
enterLoopNode ==
    /\ CanCall
    /\ Target.type = LoopProcessor
    /\ LET node == Target
           inputs == getNodeInputs(node, nodeResults)
           inputArray == LoopInputArray(inputs)
           body == getLoopBodyNode(currentWorkflow.nodes, node.id)
           frame == LoopFrame(node, inputs, body, ActualArray(inputArray, node.data))
           failure == IF ~IsArray(inputArray) THEN ErrNotArray
                      ELSE IF node.data.loopType \notin LoopTypes THEN ErrLoopType
                      ELSE ""
       IN  IF failure # ""
           THEN LET result == MkResult(node, FALSE, EmptyObj, failure)
                    results == SetResult(nodeResults, node.id, result)
                IN  /\ nodeResults' = results
                    /\ log' = LogEnd(LogWrite(LogCall(log, node, inputs), node.id),
                                           node, InLoop, Came(result))
                    /\ Deliver(stack, node, Came(result), results)
           ELSE IF ~body.found
           THEN LET done == runExpressionLoop(frame)
                    result == MkResult(node, TRUE, loopOutputs(done), "")
                    results == SetResult(nodeResults, node.id, result)
                IN  /\ nodeResults' = results
                    /\ log' = LogExpr(LogEnd(LogWrite(LogCall(log, node, inputs), node.id),
                                             node, InLoop, Came(result)), done.exprCalls)
                    /\ Deliver(stack, node, Came(result), results)
           ELSE /\ stack' = Append(stack, frame)
                /\ log' = LogCall(log, node, inputs)
                /\ UNCHANGED <<nodeResults, pc, idx, finalOutput, ret>>
    /\ currentWorkflow' = workflowAfterNode(currentWorkflow, InLoop, Target)
    /\ UNCHANGED <<order, runs, atCall, twin, editor, suspended>>

\* the innermost loop processor leaves its for loop, returns its outputs, and
\* executeNode records them
finishLoopNode ==
    /\ pc = "running"
    /\ InLoop
    /\ LoopDone(Top)
    /\ LET node == Top.node
           result == MkResult(node, TRUE, loopOutputs(Top), "")
           results == SetResult(nodeResults, node.id, result)
       IN  /\ nodeResults' = results
           /\ log' = LogEnd(LogWrite(log, node.id), node, Len(stack) > 1, Came(result))
           /\ Deliver(SubSeq(stack, 1, Len(stack) - 1), node, Came(result), results)
    /\ UNCHANGED <<currentWorkflow, order, runs, atCall, twin, editor, suspended>>

\* getExecutionResults(): Object.fromEntries(nodeResults)
getExecutionResults == nodeResults

\* reset()
reset ==
    /\ pc = "idle"
    /\ nodeResults' = NoResults
    /\ UNCHANGED <<currentWorkflow, pc, order, idx, finalOutput, stack, ret, runs,
                   atCall, log, twin, editor, suspended>>

(***************************************************************************)
(* Spec: one executeWorkflow call on a fresh executor, any workflow.       *)
(***************************************************************************)
CallWith(sizes) ==
    \E N \in sizes :
    \E types \in [1..N -> NodeTypes] :
    \E parents \in ParentChoices(N) :
    \E nodes \in Configured(BaseNodes(N, types, parents)) :
       executeWorkflow(MkWorkflow(nodes))

FirstCall == runs = 0 /\ CallWith(2..Len(NodeNames))

Next ==
    \/ FirstCall
    \/ executePlainNode
    \/ enterLoopNode
    \/ finishLoopNode

Spec == Init /\ [][Next]_vars

(***************************************************************************)
(* SpecLive: one executeWorkflow call on a fresh executor, on the          *)
(* workflows of up to three nodes, where every executeNode call that can   *)
(* be made is made: a template's execute returns or throws, it never hangs.*)
(***************************************************************************)
LiveNames == <<"n1", "n2", "n3">>

FirstCallLive == runs = 0 /\ CallWith(2..Len(LiveNames))

NextLive ==
    \/ FirstCallLive
    \/ executePlainNode
    \/ enterLoopNode
    \/ finishLoopNode

\* Some step of the call in progress.  Under NextLive the steps that satisfy
\* it are exactly those of executePlainNode, enterLoopNode and finishLoopNode,
\* and one of them can be taken whenever a call is in progress (CallCanStep):
\* fairness on callStep says the call is never left suspended for ever.  The
\* first disjunct names one changed successor, which settles ENABLED callStep
\* without evaluating the three actions.
callStep ==
    /\ pc = "running"
    /\ runs' = runs
    /\ \/ /\ pc' = "idle"
          /\ UNCHANGED <<nodeResults, currentWorkflow, order, idx, finalOutput, stack,
                         ret, atCall, log, twin, editor, suspended>>
       \/ pc' \in {"running", "idle"}

CallCanStep == pc = "running" => (CanCall \/ (InLoop /\ LoopDone(Top)))

SpecLive == Init /\ [][NextLive]_vars /\ WF_vars(callStep)

(***************************************************************************)
(* SpecTwin: the same workflow run on two fresh executors, one after the   *)
(* other, with templates that are functions of the node and its inputs.    *)
(* The first run is kept in twin; the second is the state of the model.    *)
(***************************************************************************)
FirstCallTwin == runs = 0 /\ ~twin.active /\ CallWith(2..Len(LiveNames))

\* new WorkflowExecutor(workflowId), once the first run has returned
newExecutor ==
    /\ pc = "idle" /\ runs = 1 /\ ~twin.active
    /\ DeterministicTemplates(TemplateCalls(log.events))
    /\ twin' = [active |-> TRUE, workflow |-> currentWorkflow, events |-> log.events,
                ret |-> ret]
    /\ nodeResults' = NoResults
    /\ currentWorkflow' = NoWorkflow
    /\ order' = <<>>
    /\ idx' = 0
    /\ finalOutput' = Null
    /\ stack' = <<>>
    /\ ret' = NotReturned
    /\ runs' = 0
    /\ atCall' = NoResults
    /\ log' = EmptyLog
    /\ UNCHANGED <<pc, editor, suspended>>

\* executeWorkflow on the second executor, with the workflow of the first run
callAgain == runs = 0 /\ twin.active /\ executeWorkflow(twin.workflow)

NextTwin ==
    \/ FirstCallTwin
    \/ newExecutor
    \/ callAgain
    \/ executePlainNode
    \/ enterLoopNode
    \/ finishLoopNode

SpecTwin == Init /\ [][NextTwin]_vars

(***************************************************************************)
(* SpecReuse: up to MaxRuns executeWorkflow calls on one executor, with    *)
(* reset() between them or not, on the workflows of two nodes (none of     *)
(* which has a loop processor that passes validation).                     *)
(***************************************************************************)
MaxRuns == 2
SmallNames == <<"n1", "n2">>

AnotherCall == runs < MaxRuns /\ CallWith(2..Len(SmallNames))

NextReuse ==
    \/ AnotherCall
    \/ executePlainNode
    \/ reset

SpecReuse == Init /\ [][NextReuse]_vars

(***************************************************************************)
(* SpecOrder: buildExecutionOrder alone, on every list of up to four nodes *)
(* with any parentNode pointers: absent, to a node of the list (itself     *)
(* included) or dangling.                                                  *)
(***************************************************************************)
DanglingId == "ghost"

OrderInputs ==
    UNION {{[i \in 1..N |-> MkNode(NodeNames[i], PlainType, parents[i], NoNode, FALSE, PlainData)] :
               parents \in [1..N -> {NoNode, DanglingId} \cup {NodeNames[j] : j \in 1..N}]} :
           N \in 1..Len(NodeNames)}

InitOrder ==
    /\ nodeResults = NoResults
    /\ currentWorkflow \in {[nodes |-> nodes, edges |-> <<>>] : nodes \in OrderInputs}
    /\ pc = "order-input"
    /\ order = <<>>
    /\ idx = 0
    /\ finalOutput = Null
    /\ stack = <<>>
    /\ ret = NotReturned
    /\ runs = 0
    /\ atCall = NoResults
    /\ log = EmptyLog
    /\ twin = NoTwin
    /\ editor = NoEditor
    /\ suspended = NoCall

\* one call of buildExecutionOrder(nodes): it returns the order, or throws the RangeError
buildOrder ==
    /\ pc = "order-input"
    /\ LET built == buildExecutionOrder(currentWorkflow.nodes)
       IN  /\ pc' = IF built.overflow THEN "order-overflow" ELSE "order-done"
           /\ order' = IF built.overflow THEN <<>> ELSE built.order
    /\ UNCHANGED <<nodeResults, currentWorkflow, idx, finalOutput, stack, ret, runs,
                   atCall, log, twin, editor, suspended>>

SpecOrder == InitOrder /\ [][buildOrder]_vars

(***************************************************************************)
(* SpecValidate: validateWorkflow alone, on every graph of up to three     *)
(* nodes of the start, end and plain types, with up to MaxEdges edges      *)
(* between them (self-loops and repeated edges included).                  *)
(***************************************************************************)
MaxEdges == 3

ValidateNodes ==
    UNION {{[i \in 1..N |-> MkNode(LiveNames[i], types[i], NoNode, NoNode, FALSE, PlainData)] :
               types \in [1..N -> {StartType, EndType, PlainType}]} :
           N \in 1..Len(LiveNames)}

EdgeLists(nodes) ==
    UNION {[1..k -> {MkEdge(a, b) : a \in NodeIdsOf(nodes), b \in NodeIdsOf(nodes)}] :
           k \in 0..MaxEdges}

InitValidate ==
    /\ nodeResults = NoResults
    /\ \E nodes \in ValidateNodes :
          currentWorkflow \in {[nodes |-> nodes, edges |-> edges] : edges \in EdgeLists(nodes)}
    /\ pc = "validate-input"
    /\ order = <<>>
    /\ idx = 0
    /\ finalOutput = Null
    /\ stack = <<>>
    /\ ret = NotReturned
    /\ runs = 0
    /\ atCall = NoResults
    /\ log = EmptyLog
    /\ twin = NoTwin
    /\ editor = NoEditor
    /\ suspended = NoCall

\* one call of validateWorkflow(workflow); its verdict is kept in ret, the
\* error followed by the ids the message lists
validate ==
    /\ pc = "validate-input"
    /\ pc' = "validate-done"
    /\ LET validationResult == validateWorkflow(currentWorkflow)
       IN  ret' = [NotReturned EXCEPT
                      !.state = "validated",
                      !.success = validationResult.valid,
                      !.error = IF validationResult.valid THEN <<>>
                                ELSE <<validationResult.error>> \o validationResult.unreachable]
    /\ UNCHANGED <<nodeResults, currentWorkflow, order, idx, finalOutput, stack, runs,
                   atCall, log, twin, editor, suspended>>

SpecValidate == InitValidate /\ [][validate]_vars

(***************************************************************************)
(* SpecBody: one executeWorkflow call on a fresh executor with the chain   *)
(* start -> loop processor -> end, where the loop node's loopBodyNode      *)
(* names either of the other two nodes: its child, or the node it follows. *)
(***************************************************************************)
BodyChain ==
    <<MkNode("n1", StartType, NoNode, NoNode, FALSE, PlainData),
      MkNode("n2", LoopProcessor, "n1", NoNode, FALSE, DefaultLoopData),
      MkNode("n3", EndType, "n2", NoNode, FALSE, PlainData)>>

FirstCallBody ==
    /\ runs = 0
    /\ \E data \in LoopDatas :
       \E bodyId \in {"n1", "n3"} :
          executeWorkflow(MkWorkflow(Configure(BodyChain, 2, data, bodyId)))

NextBody ==
    \/ FirstCallBody
    \/ executePlainNode
    \/ enterLoopNode
    \/ finishLoopNode

SpecBody == Init /\ [][NextBody]_vars

(***************************************************************************)
(* SpecOverlap: two executeWorkflow calls on one executor, the second made *)
(* while the first awaits a node.  JavaScript runs one call at a time and  *)
(* changes over at an await: the call that is not running keeps its locals *)
(* in suspended, the executor's fields (nodeResults, currentWorkflow) are  *)
(* shared.                                                                 *)
(***************************************************************************)
\* the first call's graph: start -> loop -> end, the end node being the loop's
\* body or not
FirstGraphs ==
    {MkWorkflow(Configure(BodyChain, 2, DefaultLoopData, bodyId)) : bodyId \in {NoNode, "n3"}}

\* the second call's graph: start -> end, with an end node of its own
SecondGraphs ==
    {MkWorkflow(<<MkNode("n1", StartType, NoNode, NoNode, FALSE, PlainData),
                  MkNode("n4", EndType, "n1", NoNode, FALSE, PlainData)>>)}

FirstCallOverlap ==
    /\ runs = 0
    /\ \E workflow \in FirstGraphs : executeWorkflow(workflow)

\* the running call reaches an await (or has returned) and the other call goes on
switchCall ==
    /\ runs > 0
    /\ \/ suspended.pc = "running"
       \/ pc = "running" /\ runs = 1
    /\ suspended' = [pc |-> pc, order |-> order, idx |-> idx, finalOutput |-> finalOutput,
                     stack |-> stack, ret |-> ret, atCall |-> atCall, log |-> log]
    /\ pc' = suspended.pc
    /\ order' = suspended.order
    /\ idx' = suspended.idx
    /\ finalOutput' = suspended.finalOutput
    /\ stack' = suspended.stack
    /\ ret' = suspended.ret
    /\ atCall' = suspended.atCall
    /\ log' = suspended.log
    /\ UNCHANGED <<nodeResults, currentWorkflow, runs, twin, editor>>

\* the second executeWorkflow call, made while the first awaits a node
SecondCallOverlap ==
    /\ runs = 1
    /\ suspended.pc = "running"
    /\ ret = NotReturned
    /\ \E workflow \in SecondGraphs : executeWorkflow(workflow)

\* context.executeLoopBody for a loop node that the current workflow does not
\* have: find gives undefined, executeLoopBody fails on loopNode.id before it
\* calls executeNode, and the loop template catches the TypeError
loopNodeLost ==
    /\ pc = "running"
    /\ InLoop /\ Top.hasBody /\ ~LoopDone(Top)
    /\ ~LoopNodeKnown
    /\ stack' = [stack EXCEPT ![Len(stack)] = loopOnError(@)]
    /\ UNCHANGED <<nodeResults, currentWorkflow, pc, order, idx, finalOutput, ret, runs,
                   atCall, log, twin, editor, suspended>>

NextOverlap ==
    \/ FirstCallOverlap
    \/ SecondCallOverlap
    \/ switchCall
    \/ executePlainNode
    \/ enterLoopNode
    \/ finishLoopNode
    \/ loopNodeLost

SpecOverlap == Init /\ [][NextOverlap]_vars

(***************************************************************************)
(* SpecEditor: the editor with three nodes on the canvas; connections the  *)
(* canvas accepts, edge removals, node deletions from the context menu,    *)
(* and the run action, which builds a workflow and hands it to a new       *)
(* executor.                                                               *)
(***************************************************************************)
InitEditor ==
    /\ nodeResults = NoResults
    /\ currentWorkflow = NoWorkflow
    /\ pc = "idle"
    /\ order = <<>>
    /\ idx = 0
    /\ finalOutput = Null
    /\ stack = <<>>
    /\ ret = NotReturned
    /\ runs = 0
    /\ atCall = NoResults
    /\ log = EmptyLog
    /\ twin = NoTwin
    /\ editor = [nodes |-> DroppedNodes, edges |-> <<>>]
    /\ suspended = NoCall

EngineIdle ==
    UNCHANGED <<nodeResults, currentWorkflow, pc, order, idx, finalOutput, stack, ret,
                runs, atCall, log, twin, suspended>>

\* onConnect(params), called by the canvas for a connection isValidConnection accepts
onConnect ==
    /\ runs = 0
    /\ \E params \in Connections(editor.nodes) :
          /\ isValidConnection(editor.nodes, params)
          /\ editor' = [nodes |-> connectNodes(editor.nodes, params),
                        edges |-> addEdge(params, editor.edges)]
    /\ EngineIdle

\* handleEdgesChange([{type: 'remove', id}]) for one edge of the canvas
handleEdgesChange ==
    /\ runs = 0
    /\ \E k \in 1..Len(editor.edges) :
          LET removed == editor.edges[k]
          IN  editor' =
                 [nodes |-> [i \in 1..Len(editor.nodes) |->
                                IF editor.nodes[i].id = removed.target
                                THEN [editor.nodes[i] EXCEPT !.parentNode = NoNode]
                                ELSE editor.nodes[i]],
                  edges |-> SelectSeq(editor.edges, LAMBDA e : e # removed)]
    /\ EngineIdle

\* deleteNode(nodeId)
deleteNode ==
    /\ runs = 0
    /\ \E nodeId \in NodeIdsOf(editor.nodes) :
          editor' = [nodes |-> SelectSeq(editor.nodes, LAMBDA n : n.id # nodeId),
                     edges |-> SelectSeq(editor.edges,
                                         LAMBDA e : e.source # nodeId /\ e.target # nodeId)]
    /\ EngineIdle

\* the editor's own validateWorkflow: a node whose template has input fields
\* needs a parentNode (every template but the start node's has input fields)
editorValidation(nodes) ==
    \A i \in 1..Len(nodes) :
        (HasTemplate(nodes[i].type) /\ nodes[i].type # StartType) => nodes[i].parentNode # NoNode

\* the workflow handleRun builds: {id, type, position, data} of every node and
\* the ends of every edge
builtWorkflow(ed) ==
    [nodes |-> [i \in 1..Len(ed.nodes) |->
                   MkNode(ed.nodes[i].id, ed.nodes[i].type, NoNode, NoNode, FALSE,
                          ed.nodes[i].data)],
     edges |-> [k \in 1..Len(ed.edges) |-> MkEdge(ed.edges[k].source, ed.edges[k].target)]]

\* handleRun, up to its await of executor.executeWorkflow(currentWorkflow); the
\* workflow it passes has no loopBodyNode, so the run suspends no loop processor
handleRun ==
    /\ runs = 0
    /\ Len(editor.nodes) # 0
    /\ \E i \in 1..Len(editor.nodes) : editor.nodes[i].type = StartType
    /\ \E i \in 1..Len(editor.nodes) : editor.nodes[i].type = EndType
    /\ editorValidation(editor.nodes)
    /\ executeWorkflow(builtWorkflow(editor))

NextEditor ==
    \/ onConnect
    \/ handleEdgesChange
    \/ deleteNode
    \/ handleRun
    \/ executePlainNode
    \/ enterLoopNode

SpecEditor == InitEditor /\ [][NextEditor]_vars

(***************************************************************************)
(* Properties.                                                             *)
(***************************************************************************)
CallReturned == pc = "idle" /\ runs > 0

\* Graph defects, stated on the document itself (not through the validator).
StartCount(w) == Cardinality({i \in 1..Len(w.nodes) : w.nodes[i].type = StartType})
EndCount(w) == Cardinality({i \in 1..Len(w.nodes) : w.nodes[i].type = EndType})
EdgeSet(w) == {<<w.edges[i].source, w.edges[i].target>> : i \in 1..Len(w.edges)}
Successors(w, ids) == {e[2] : e \in {d \in EdgeSet(w) : d[1] \in ids}}

RECURSIVE Closure(_, _)
\* the ids reachable from ids by zero or more edges
Closure(w, ids) ==
    LET more == ids \cup Successors(w, ids)
    IN  IF more = ids THEN ids ELSE Closure(w, more)

EdgeCycle(w) == \E e \in EdgeSet(w) : e[1] \in Closure(w, {e[2]})
StartId(w) == w.nodes[CHOOSE i \in 1..Len(w.nodes) : w.nodes[i].type = StartType].id
UnreachableNode(w) ==
    /\ StartCount(w) = 1
    /\ \E i \in 1..Len(w.nodes) : w.nodes[i].id \notin Closure(w, {StartId(w)})
Defective(w) ==
    \/ StartCount(w) # 1
    \/ EndCount(w) # 1
    \/ EdgeCycle(w)
    \/ UnreachableNode(w)

\* C1 as stated: a call on a defective graph returns success = false and an
\* empty results map, and has invoked no template.
C1_GatingReturnsEmptyResults ==
    (CallReturned /\ Defective(currentWorkflow)) =>
        /\ ret.state = "returned" /\ ~ret.success
        /\ DOMAIN ret.results = {}
        /\ log.executed = <<>>

\* C1 (amended): validation gating.  A call on a graph that has no start node,
\* no end node, more than one start or end node, a cycle in its edges or a node
\* unreachable from the start node returns success = false, returns as results
\* exactly the entries the executor held when the call began (none on a fresh or
\* reset executor), and has invoked no template and written no result.
C1_ValidationGating ==
    (CallReturned /\ Defective(currentWorkflow)) =>
        /\ ret.state = "returned" /\ ~ret.success
        /\ ret.results = atCall
        /\ nodeResults \in {atCall, NoResults}
        /\ log.executed = <<>> /\ log.writes = <<>>

C1_Witness ==
    /\ CallReturned /\ Defective(currentWorkflow)
    /\ ret.state = "returned" /\ ~ret.success
    /\ DOMAIN atCall # {} /\ ret.results = atCall

\* C2: abort on failure.  When the node at position idx of the execution order,
\* not the last one, has failed, the call returns success = false and its
\* results hold an entry for every node up to and including that position and
\* none for the nodes scheduled after it.
C2_AbortOnFailure ==
    (/\ CallReturned
     /\ idx >= 1 /\ idx < Len(order)
     /\ order[idx].id \in Written
     /\ ~nodeResults[order[idx].id].success) =>
        /\ ret.state = "returned" /\ ~ret.success
        /\ \A j \in 1..idx : order[j].id \in DOMAIN ret.results
        /\ \A j \in (idx + 1)..Len(order) : order[j].id \notin DOMAIN ret.results

\* C3: loop context injection.  Every template call made through
\* executeLoopBody for a body node whose parentNode is the owning loop node
\* receives element, index, array and loopNodeId of the invocation, and
\* input = element, inputArray = [element].
C3_LoopContextInjection ==
    \A i \in 1..Len(log.executed) :
        LET e == log.executed[i]
            c == e.loopContext
        IN  (/\ e.inLoop
             /\ FindNode(currentWorkflow.nodes, e.nodeId).parentNode = Get(c, "loopNodeId").s) =>
                /\ Get(e.inputs, "element") = Get(c, "element")
                /\ Get(e.inputs, "index") = Get(c, "index")
                /\ Get(e.inputs, "array") = Get(c, "array")
                /\ Get(e.inputs, "loopNodeId") = Get(c, "loopNodeId")
                /\ Get(e.inputs, "input") = Get(c, "element")
                /\ Get(e.inputs, "inputArray") = Arr(<<Get(c, "element")>>)

\* Parent pointers of a node list, stated on the list itself.
ParentInList(nodes, i) ==
    nodes[i].parentNode # NoNode /\ HasNode(nodes, nodes[i].parentNode)
PlacedBefore(seq, p, n) ==
    \E i, j \in 1..Len(seq) : i < j /\ seq[i].id = p /\ seq[j].id = n

RECURSIVE ParentPower(_, _, _)
\* the id reached from id by following parentNode k times ("" when the chain ends)
ParentPower(nodes, id, k) ==
    IF k = 0 THEN id
    ELSE IF ~HasNode(nodes, id) THEN NoNode
    ELSE ParentPower(nodes, FindNode(nodes, id).parentNode, k - 1)

ParentCycle(nodes) ==
    \E i \in 1..Len(nodes) : \E k \in 1..Len(nodes) :
        ParentPower(nodes, nodes[i].id, k) = nodes[i].id

OrderCallEnded == pc \in {"order-done", "order-overflow"}

\* C4 as stated: for every node list, buildExecutionOrder places the parent of
\* every node strictly before the node.
C4_EveryListOrdered ==
    OrderCallEnded =>
        \A i \in 1..Len(currentWorkflow.nodes) :
            ParentInList(currentWorkflow.nodes, i) =>
                PlacedBefore(order, currentWorkflow.nodes[i].parentNode,
                             currentWorkflow.nodes[i].id)

\* C4 (amended): ordering respects parentage.  For every node list whose
\* parentNode pointers form no cycle, buildExecutionOrder returns an order that
\* places the parent p of every node n (p in the list) strictly before n.
C4_OrderRespectsParentage ==
    (OrderCallEnded /\ ~ParentCycle(currentWorkflow.nodes)) =>
        /\ pc = "order-done"
        /\ \A i \in 1..Len(currentWorkflow.nodes) :
              ParentInList(currentWorkflow.nodes, i) =>
                  PlacedBefore(order, currentWorkflow.nodes[i].parentNode,
                               currentWorkflow.nodes[i].id)

\* a list whose second node is the parent of the first, and the order built for it
C4_Witness ==
    /\ pc = "order-done"
    /\ Len(currentWorkflow.nodes) >= 3
    /\ currentWorkflow.nodes[1].parentNode = currentWorkflow.nodes[2].id
    /\ currentWorkflow.nodes[2].parentNode = currentWorkflow.nodes[3].id
    /\ order[1].id = currentWorkflow.nodes[3].id

\* The executeLoopBody calls made so far by the loop suspended on top of the
\* stack, the array its template received, and the iteration cap of its data.
TopCalls == SelectSeq(log.bodyCalls, LAMBDA c : c.loopNodeId = Top.node.id)
TopInput == LoopInputArray(Top.inputs).xs
TopCap == IF Top.node.data.maxIterations # 0 THEN Top.node.data.maxIterations
          ELSE DefaultMaxIterations
TopIsReduce == Top.node.data.loopType = "reduce"

C6_SingleEntryPerNode ==
    (CallReturned /\ ret.success) =>
        /\ \A i \in 1..Len(currentWorkflow.nodes) :
              /\ currentWorkflow.nodes[i].id \in DOMAIN ret.results
              /\ ret.results[currentWorkflow.nodes[i].id].nodeId = currentWorkflow.nodes[i].id
              /\ ret.results[currentWorkflow.nodes[i].id].nodeType = currentWorkflow.nodes[i].type
        /\ DOMAIN ret.results = NodeIdsOf(currentWorkflow.nodes)

\* a successful run of four nodes, one of them a loop body
C6_Witness ==
    /\ CallReturned /\ ret.success
    /\ Len(currentWorkflow.nodes) = 4
    /\ Len(log.bodyCalls) > 0
    /\ Cardinality(DOMAIN ret.results) = 4

\* C7: no exception escapes executeWorkflow.  Every call ends by returning a
\* structured object; a validation failure, a missing template and a failed
\* node all give success = false with an error, never a thrown error.
C7_NoExceptionEscapes ==
    CallReturned =>
        /\ ret.state = "returned"
        /\ ret.success => (ret.error = <<>> /\ ret.hasFinalOutput)
        /\ ~ret.success =>
              /\ Len(ret.error) > 0
              /\ ret.error[1] \in {ErrNoStart, ErrManyStart, ErrNoEnd, ErrManyEnd, ErrCycle,
                                   ErrUnreachable, ErrTemplateNotFound, ErrNodeFailed}
        /\ (\/ Defective(currentWorkflow)
            \/ \E i \in 1..Len(currentWorkflow.nodes) :
                  /\ currentWorkflow.nodes[i].id \in DOMAIN nodeResults
                  /\ ~nodeResults[currentWorkflow.nodes[i].id].success
                  /\ order[idx].id = currentWorkflow.nodes[i].id
            \/ (idx >= 1 /\ ~HasTemplate(order[idx].type))) => ~ret.success

\* a call that ended at a node whose type has no template
C7_Witness ==
    /\ CallReturned /\ ret.state = "returned" /\ ~ret.success
    /\ ret.error[1] = ErrTemplateNotFound
    /\ Len(log.executed) > 0

WriteCount(id) == Cardinality({i \in 1..Len(log.writes) : log.writes[i] = id})
NamedLoopBody(id) ==
    \E i \in 1..Len(currentWorkflow.nodes) :
        /\ currentWorkflow.nodes[i].type = LoopProcessor
        /\ currentWorkflow.nodes[i].loopBodyNode = id

\* C8 as stated: within one call executeNode writes a result at most once for
\* each node id.
C8_NeverOverwritten == \A id \in Written : WriteCount(id) = 1

\* C8 (amended): single write per node per run.  Within one call executeNode
\* writes a result at most once for each node id that no loop processor of the
\* graph names as its loopBodyNode; the entry of a loop-body node is rewritten
\* by every iteration of its loop and by the node's own turn in the order.
C8_SingleWritePerNode ==
    /\ \A id \in Written : WriteCount(id) > 1 => NamedLoopBody(id)
    /\ Written \subseteq DOMAIN nodeResults

\* a loop-body node written more than once while the others were written once
C8_Witness ==
    /\ CallReturned /\ ret.success
    /\ \E id \in Written : WriteCount(id) = 3 /\ NamedLoopBody(id)
    /\ \E id \in Written : WriteCount(id) = 1

\* C9: write before read.  Whenever getNodeInputs reads the result of a node's
\* parent and the parent is a node of the graph, the parent's result of this
\* call has already been recorded.
C9_WriteBeforeRead ==
    \A i \in 1..Len(log.reads) :
        HasNode(currentWorkflow.nodes, log.reads[i].parent) => log.reads[i].recorded

EndNodeId == currentWorkflow.nodes[CHOOSE i \in 1..Len(currentWorkflow.nodes) :
                                      currentWorkflow.nodes[i].type = EndType].id

ExecutedIds == {log.executed[i].nodeId : i \in 1..Len(log.executed)}

\* the call ended at position idx of the order, at a node whose type has no template
AbortedAtMissingTemplate ==
    CallReturned /\ idx >= 1 /\ idx <= Len(order) /\ ~HasTemplate(order[idx].type)

\* C11: template not found.  When the orchestrator reaches a node whose type
\* has no registered template, the call returns success = false with an error,
\* no template of a node that comes later in the order has been invoked, the
\* results of the nodes before it are kept, and no entry is written for the node.
C11_TemplateNotFound ==
    AbortedAtMissingTemplate =>
        /\ ret.state = "returned" /\ ~ret.success /\ ret.error # <<>>
        /\ \A j \in (idx + 1)..Len(order) : order[j].id \notin ExecutedIds
        /\ \A j \in 1..(idx - 1) : order[j].id \in DOMAIN ret.results
        /\ order[idx].id \notin Written
        /\ order[idx].id \notin DOMAIN ret.results

\* The executeNode calls of the run as a sequence of start and end events.
StartsUpTo(i, inLoop) ==
    Cardinality({j \in 1..i : log.events[j].kind = "start" /\ log.events[j].inLoop = inLoop})
OpenBefore(i) ==
    Cardinality({j \in 1..(i - 1) : log.events[j].kind = "start"})
        - Cardinality({j \in 1..(i - 1) : log.events[j].kind = "end"})
EndedBefore(i, id) ==
    \E j \in 1..(i - 1) :
        /\ log.events[j].kind = "end" /\ ~log.events[j].inLoop /\ ~log.events[j].threw
        /\ log.events[j].nodeId = id
\* the node of the orchestrator's call that is open at event i
OwnerAt(i) ==
    FindNode(currentWorkflow.nodes,
             log.events[CHOOSE j \in 1..(i - 1) :
                           /\ log.events[j].kind = "start" /\ ~log.events[j].inLoop
                           /\ \A k \in (j + 1)..(i - 1) :
                                 ~(log.events[k].kind = "start" /\ ~log.events[k].inLoop)].nodeId)

\* C12: no parallel node execution.  The orchestrator starts the executeNode
\* call of the k-th node of the order only when no call is open and the call of
\* the (k-1)-th node has ended with its result recorded; a loop-body call starts
\* only inside the open call of the loop processor that names the node as its
\* loop body, and only when no other loop-body call is open.
C12_NoParallelExecution ==
    \A i \in 1..Len(log.events) :
        LET e == log.events[i]
            k == StartsUpTo(i, FALSE)
        IN  /\ (e.kind = "start" /\ ~e.inLoop) =>
                  /\ OpenBefore(i) = 0
                  /\ k <= Len(order) /\ e.nodeId = order[k].id
                  /\ k > 1 => (EndedBefore(i, order[k - 1].id) /\ order[k - 1].id \in DOMAIN nodeResults)
            /\ (e.kind = "start" /\ e.inLoop) =>
                  /\ OpenBefore(i) = 1
                  /\ OwnerAt(i).type = LoopProcessor
                  /\ OwnerAt(i).loopBodyNode = e.nodeId
            /\ e.kind = "end" => OpenBefore(i) = (IF e.inLoop THEN 2 ELSE 1)

\* a finished run with three orchestrator calls and two loop-body calls
C12_Witness ==
    /\ CallReturned
    /\ Len(log.events) > 0
    /\ StartsUpTo(Len(log.events), FALSE) >= 3
    /\ StartsUpTo(Len(log.events), TRUE) >= 2

\* what a finished call returned as results, against what the executor held
\* when the call began and what the call wrote
ReturnedAccumulated ==
    (CallReturned /\ ret.state = "returned") =>
        /\ DOMAIN ret.results = (DOMAIN atCall) \cup Written
        /\ \A id \in (DOMAIN atCall) \ Written : ret.results[id] = atCall[id]
        /\ \A id \in Written : ret.results[id].nodeId = id
        /\ (DOMAIN atCall = {}) => DOMAIN ret.results = Written

\* C13: accumulate unless reset.  The results a call returns are the entries
\* the executor held when the call began (for the ids the call did not write)
\* together with the entries the call wrote; reset() leaves
\* getExecutionResults() empty, and a call that begins on the empty map returns
\* only its own entries.
C13_AccumulateUnlessReset ==
    /\ []ReturnedAccumulated
    /\ [][(pc = "idle" /\ runs' = runs) =>
             (DOMAIN getExecutionResults' = {} /\ ret' = ret)]_vars

\* a second call without reset that returned an entry of the first run beside its own
C13_Witness ==
    /\ CallReturned /\ runs = 2 /\ ret.state = "returned"
    /\ Written # {}
    /\ \E id \in (DOMAIN atCall) \ Written : id \in DOMAIN ret.results

\* C14: the order builder has no failure mode.  For every node list with
\* unique ids and any parentNode pointers (absent, to a node of the list, or
\* dangling), buildExecutionOrder returns, and the order it returns holds every
\* node of the list exactly once.
C14_OrderBuilderTotal ==
    OrderCallEnded =>
        /\ pc = "order-done"
        /\ Len(order) = Len(currentWorkflow.nodes)
        /\ \A i \in 1..Len(currentWorkflow.nodes) :
              Cardinality({j \in 1..Len(order) : order[j] = currentWorkflow.nodes[i]}) = 1

(***************************************************************************)
(* SpecInputs: getNodeInputs alone.  The executor holds a result for the   *)
(* parent n1 (or none); the node n2 has any parent pointer, loop-body      *)
(* marks and parameter selections.                                         *)
(***************************************************************************)
Absent == Val("absent", 0, "", <<>>, <<>>)

\* {k: v, ...o} without the key when v is absent
WithKey(o, k, v) == IF v = Absent THEN o ELSE Put(o, k, v)

ParentOutputs ==
    {WithKey(WithKey(WithKey(WithKey(EmptyObj, "output", a), "extra", b), "input", c),
             "inputArray", d) :
        a \in {Absent, Num(0), Num(3), Null, Arr(<<Num(10)>>)},
        b \in {Absent, Num(5), Undef},
        c \in {Absent, Num(9)},
        d \in {Absent, Num(8)}}

ParentNodeOfInputs == MkNode("n1", PlainType, NoNode, NoNode, FALSE, PlainData)

Selection(paramKey, source, sourceNodeId, sourceOutputKey) ==
    [paramKey |-> paramKey, source |-> source, sourceNodeId |-> sourceNodeId,
     sourceOutputKey |-> sourceOutputKey]

SelectionChoices ==
    {NoSelections,
     [present |-> TRUE, entries |-> <<Selection("text", "upstream", "n1", "")>>],
     [present |-> TRUE, entries |-> <<Selection("text", "static", "", ""),
                                      Selection("value", "upstream", "n1", "extra")>>],
     [present |-> TRUE, entries |-> <<>>],
     [present |-> TRUE, entries |-> <<Selection("input", "upstream", "n1", "extra"),
                                      Selection("other", "upstream", DanglingId, "output"),
                                      Selection("fixed", "static", "n1", "output")>>],
     [present |-> TRUE, entries |-> <<Selection("text", "upstream", "n1", "missing"),
                                      Selection("value", "upstream", "n1", "output")>>]}

ChildNodes ==
    {[MkNode("n2", PlainType, parent, NoNode, isBody,
             NodeData("", 0, FALSE, FALSE, selections)) EXCEPT !.loopContext = context] :
        parent \in {NoNode, "n1", DanglingId},
        isBody \in BOOLEAN,
        selections \in SelectionChoices,
        context \in {Undef, Obj(<<"element", "index", "array", "loopNodeId">>,
                                <<Num(10), Num(0), Arr(<<Num(10)>>), Str("n1")>>)}}

InitInputs ==
    /\ nodeResults \in
          {NoResults} \cup
          {SetResult(NoResults, "n1",
                     MkResult(ParentNodeOfInputs, ok, IF ok THEN outputs ELSE EmptyObj,
                              IF ok THEN "" ELSE ErrTemplateThrew)) :
              ok \in BOOLEAN, outputs \in ParentOutputs}
    /\ currentWorkflow \in
          {[nodes |-> <<ParentNodeOfInputs, child>>, edges |-> <<>>] : child \in ChildNodes}
    /\ pc = "inputs-input"
    /\ order = <<>>
    /\ idx = 0
    /\ finalOutput = Null
    /\ stack = <<>>
    /\ ret = NotReturned
    /\ runs = 0
    /\ atCall = NoResults
    /\ log = EmptyLog
    /\ twin = NoTwin
    /\ editor = NoEditor
    /\ suspended = NoCall

\* one call of getNodeInputs(n2) by executeNode
resolveInputs ==
    /\ pc = "inputs-input"
    /\ pc' = "inputs-done"
    /\ log' = LogCall(log, currentWorkflow.nodes[2],
                      getNodeInputs(currentWorkflow.nodes[2], nodeResults))
    /\ UNCHANGED <<nodeResults, currentWorkflow, order, idx, finalOutput, stack, ret, runs,
                   atCall, twin, editor, suspended>>

SpecInputs == InitInputs /\ [][resolveInputs]_vars

\* The call of SpecInputs: the node, its resolved inputs, the parent's outputs.
ResolvedNode == currentWorkflow.nodes[2]
ResolvedInputs == log.executed[1].inputs
ResolvedParentOutputs == nodeResults[ResolvedNode.parentNode].outputs
KeysOf(o) == {o.keys[i] : i \in 1..Len(o.keys)}

\* the node is not run as a loop body, has no parameterSelections, and its
\* parent succeeded with outputs that have the key output
FallbackCase ==
    /\ pc = "inputs-done"
    /\ ~(ResolvedNode.isLoopBodyNode /\ Truthy(ResolvedNode.loopContext))
    /\ ~ResolvedNode.data.parameterSelections.present
    /\ ResolvedNode.parentNode \in DOMAIN nodeResults
    /\ nodeResults[ResolvedNode.parentNode].success
    /\ HasKey(ResolvedParentOutputs, "output")

\* C15 as stated: in the fallback case, input = V and inputArray = V for the
\* parent's output V, and every other key of the parent's outputs has the same
\* value in the inputs.
C15_FallbackAlwaysOutput ==
    FallbackCase =>
        /\ Get(ResolvedInputs, "input") = Get(ResolvedParentOutputs, "output")
        /\ Get(ResolvedInputs, "inputArray") = Get(ResolvedParentOutputs, "output")
        /\ \A k \in KeysOf(ResolvedParentOutputs) \ {"output"} :
              Get(ResolvedInputs, k) = Get(ResolvedParentOutputs, k)

\* C15 (amended): fallback input default.  In the fallback case every key of
\* the parent's outputs (output included) has the same value in the inputs, and
\* input and inputArray are the parent's output V unless the parent's outputs
\* have a key of that name themselves, whose value then takes its place.
C15_FallbackInputDefault ==
    FallbackCase =>
        /\ \A k \in KeysOf(ResolvedParentOutputs) :
              Get(ResolvedInputs, k) = Get(ResolvedParentOutputs, k)
        /\ \A k \in {"input", "inputArray"} \ KeysOf(ResolvedParentOutputs) :
              Get(ResolvedInputs, k) = Get(ResolvedParentOutputs, "output")
        /\ KeysOf(ResolvedInputs) \subseteq
              KeysOf(ResolvedParentOutputs) \cup {"input", "inputArray"}

\* parent outputs {output: 3, extra: 5, inputArray: 8}: input is 3, inputArray is 8
C15_Witness ==
    /\ FallbackCase
    /\ ResolvedParentOutputs = Obj(<<"output", "extra", "inputArray">>, <<Num(3), Num(5), Num(8)>>)
    /\ Get(ResolvedInputs, "input") = Num(3)
    /\ Get(ResolvedInputs, "inputArray") = Num(8)
    /\ Get(ResolvedInputs, "extra") = Num(5)

\* The last executeNode call that ended, and what the suspended loop holds of it.
LastEvent == log.events[Len(log.events)]

\* a loop-body call has just succeeded and handed its value to a loop that keeps it
BodyJustReturned ==
    /\ pc = "running" /\ InLoop /\ log.events # <<>>
    /\ LastEvent.kind = "end" /\ LastEvent.inLoop
    /\ ~LastEvent.threw /\ LastEvent.result.success
    /\ \/ Top.node.data.loopType \in {"map", "reduce"}
       \/ Top.node.data.loopType = "forEach" /\ Top.node.data.collectResults

\* the value executeLoopBody returned, as the loop template stored it
LoopReceived ==
    CASE Top.node.data.loopType = "map" -> Top.result.xs[Len(Top.result.xs)]
      [] Top.node.data.loopType = "reduce" -> Top.result
      [] OTHER -> Top.collected[Len(Top.collected)]

\* C16: loop-body return value.  When the body node's execution succeeds,
\* executeLoopBody returns the output field of its outputs whenever the outputs
\* have the key output, whatever its value, and the whole outputs map only when
\* they have no such key.
C16_LoopBodyReturnValue ==
    BodyJustReturned =>
        LoopReceived = (IF HasKey(LastEvent.result.outputs, "output")
                        THEN Get(LastEvent.result.outputs, "output")
                        ELSE LastEvent.result.outputs)

ValidationErrors == {ErrNoStart, ErrManyStart, ErrNoEnd, ErrManyEnd, ErrCycle, ErrUnreachable}
SucceededUpTo(k) ==
    \A j \in 1..k : order[j].id \in DOMAIN ret.results /\ ret.results[order[j].id].success

\* The three outcomes of a call.
RunFailed ==
    /\ ret.state = "returned" /\ ~ret.success
    /\ ret.error # <<>> /\ ret.error[1] \in ValidationErrors
    /\ ~validateWorkflow(currentWorkflow).valid
    /\ order = <<>> /\ log.events = <<>>
RunAborted ==
    /\ ret.state = "returned" /\ ~ret.success
    /\ ret.error # <<>> /\ ret.error[1] \in {ErrNodeFailed, ErrTemplateNotFound}
    /\ idx >= 1 /\ idx <= Len(order)
    /\ SucceededUpTo(idx - 1)
    /\ IF HasTemplate(order[idx].type)
       THEN order[idx].id \in DOMAIN ret.results /\ ~ret.results[order[idx].id].success
       ELSE ret.error[1] = ErrTemplateNotFound
RunCompleted ==
    /\ ret.state = "returned" /\ ret.success
    /\ order # <<>> /\ idx = Len(order)
    /\ SucceededUpTo(Len(order))
OutcomeCount ==
    (IF RunFailed THEN 1 ELSE 0) + (IF RunAborted THEN 1 ELSE 0)
        + (IF RunCompleted THEN 1 ELSE 0)

\* while nodes execute, the graph has passed validation and the order is the
\* one built for it; a finished call has exactly one outcome
RunShape ==
    /\ pc = "running" =>
          /\ validateWorkflow(currentWorkflow).valid
          /\ order = buildExecutionOrder(currentWorkflow.nodes).order
          /\ ret = NotReturned
          /\ CallCanStep
    /\ CallReturned => OutcomeCount = 1

RootsOf(nodes) == SelectSeq(nodes, LAMBDA n : n.parentNode = NoNode)
OrderShape ==
    /\ Len(order) = Len(currentWorkflow.nodes)
    /\ SubSeq(order, 1, Len(RootsOf(currentWorkflow.nodes))) = RootsOf(currentWorkflow.nodes)
    /\ \A j \in (Len(RootsOf(currentWorkflow.nodes)) + 1)..Len(order) :
          PlacedBefore(order, order[j].parentNode, order[j].id)
\* the orchestrator's k-th executeNode call is for the k-th node of the order
CallsFollowOrder ==
    \A i \in 1..Len(log.events) :
        (log.events[i].kind = "start" /\ ~log.events[i].inLoop) =>
            log.events[i].nodeId = order[StartsUpTo(i, FALSE)].id

FirstFailure(w) ==
    IF StartCount(w) = 0 THEN ErrNoStart
    ELSE IF StartCount(w) > 1 THEN ErrManyStart
    ELSE IF EndCount(w) = 0 THEN ErrNoEnd
    ELSE IF EndCount(w) > 1 THEN ErrManyEnd
    ELSE IF EdgeCycle(w) THEN ErrCycle
    ELSE ErrUnreachable
UnreachableIds(w) == NodeIdsOf(w.nodes) \ Closure(w, {StartId(w)})

\* C19: validator verdict.  validateWorkflow returns valid = true exactly when
\* the graph has exactly one start node, exactly one end node, no directed
\* cycle in its edges and every node reachable from the start node by forward
\* edges; otherwise it returns the error of the first check that fails, in that
\* order, and the unreachable-node error lists the ids of all unreachable nodes.
C19_ValidatorVerdict ==
    pc = "validate-done" =>
        /\ ret.success <=> ~Defective(currentWorkflow)
        /\ ~ret.success =>
              /\ ret.error[1] = FirstFailure(currentWorkflow)
              /\ ret.error[1] = ErrUnreachable =>
                    /\ {ret.error[i] : i \in 2..Len(ret.error)} = UnreachableIds(currentWorkflow)
                    /\ Len(ret.error) = 1 + Cardinality(UnreachableIds(currentWorkflow))
              /\ ret.error[1] # ErrUnreachable => Len(ret.error) = 1

\* one start, one end and a third node, no cycle, two nodes out of reach
C19_Witness ==
    /\ pc = "validate-done" /\ ~ret.success
    /\ ret.error[1] = ErrUnreachable /\ Len(ret.error) = 3
    /\ Len(currentWorkflow.edges) = MaxEdges


(***************************************************************************)
(* Node failure is recorded, not thrown.                                   *)
(***************************************************************************)
\* this step ends an executeNode call whose template threw or rejected
TemplateFailed ==
    /\ Len(log'.events) > Len(log.events)
    /\ LET e == log'.events[Len(log'.events)]
       IN  /\ e.kind = "end"
           /\ HasTemplate(e.result.nodeType)
           /\ e.result.nodeType # LoopProcessor
           /\ ~e.result.success
FailedCall == log'.events[Len(log'.events)]

\* executeNode returned, stored the result it returned under the node's id with
\* success = false and outputs = {}, and left the other entries as they were
RecordedNotThrown ==
    /\ ~FailedCall.threw
    /\ FailedCall.nodeId \in DOMAIN nodeResults'
    /\ nodeResults'[FailedCall.nodeId] = FailedCall.result
    /\ FailedCall.result.nodeId = FailedCall.nodeId
    /\ ~FailedCall.result.success
    /\ FailedCall.result.outputs = EmptyObj
    /\ DOMAIN nodeResults' = DOMAIN nodeResults \cup {FailedCall.nodeId}
    /\ \A k \in DOMAIN nodeResults : k # FailedCall.nodeId => nodeResults'[k] = nodeResults[k]

\* C20: when a registered template's execute throws or rejects, executeNode
\* does not throw; it stores under the node's id and returns a result with
\* success = false, outputs = {} and error set to the thrown message, and it
\* leaves every other entry of the results unchanged.
C20_FailureRecorded ==
    [][TemplateFailed =>
          /\ RecordedNotThrown
          /\ FailedCall.result.error = log'.thrown.text]_vars

\* C20 as the code has it: the error is the thrown Error's message, and the
\* fixed text 'execution failed' when the thrown value is not an Error
C20_FailureRecordedMessage ==
    [][TemplateFailed =>
          /\ RecordedNotThrown
          /\ log'.thrown \in ThrownValues
          /\ FailedCall.result.error =
                (IF log'.thrown.isError THEN log'.thrown.text ELSE ErrExecutionFailed)]_vars

\* a template rejected with a value that is not an Error after another node
\* had its result recorded; the failure is recorded beside it
C20_Witness ==
    /\ log.events # <<>>
    /\ LET e == LastEvent
       IN  /\ e.kind = "end" /\ ~e.threw /\ ~e.result.success
           /\ HasTemplate(e.result.nodeType) /\ e.result.nodeType # LoopProcessor
           /\ ~log.thrown.isError
           /\ e.result.error = ErrExecutionFailed
           /\ e.nodeId \in DOMAIN nodeResults
           /\ \E k \in DOMAIN nodeResults : k # e.nodeId /\ nodeResults[k].success


(***************************************************************************)
(* Parameter-binding resolution.                                           *)
(***************************************************************************)
\* the node is not run as a loop body, declares parameterSelections, and its
\* parent succeeded
BindingCase ==
    /\ pc = "inputs-done"
    /\ ~(ResolvedNode.isLoopBodyNode /\ Truthy(ResolvedNode.loopContext))
    /\ ResolvedNode.data.parameterSelections.present
    /\ ResolvedNode.parentNode \in DOMAIN nodeResults
    /\ nodeResults[ResolvedNode.parentNode].success
Bindings == ResolvedNode.data.parameterSelections.entries
\* the bindings that read the parent: upstream, and naming the node's parent
ParentBindings ==
    {i \in 1..Len(Bindings) :
        Bindings[i].source = "upstream" /\ Bindings[i].sourceNodeId = ResolvedNode.parentNode}
BoundKey(b) == IF b.sourceOutputKey = "" THEN "output" ELSE b.sourceOutputKey

\* C21: parameter-binding resolution.  For a node not run as a loop body that
\* declares parameterSelections and whose parent succeeded, every upstream
\* binding that names the parent gives its parameter the parent's output under
\* sourceOutputKey (under 'output' when unset); static bindings and bindings
\* that name another node contribute nothing, and no fallback key (input,
\* inputArray, a copied parent key) is added.
C21_ParameterBinding ==
    BindingCase =>
        /\ \A i \in ParentBindings :
              Get(ResolvedInputs, Bindings[i].paramKey) =
                 Get(ResolvedParentOutputs, BoundKey(Bindings[i]))
        /\ KeysOf(ResolvedInputs) \subseteq {Bindings[i].paramKey : i \in ParentBindings}

\* parent outputs {output: 3, extra: 5, inputArray: 8} and the bindings input <-
\* parent.extra, other <- another node, fixed static: the inputs are {input: 5}
C21_Witness ==
    /\ BindingCase
    /\ Len(Bindings) = 3
    /\ Cardinality(ParentBindings) = 1
    /\ KeysOf(ResolvedParentOutputs) = {"output", "extra", "inputArray"}
    /\ Get(ResolvedParentOutputs, "output") = Num(3)
    /\ KeysOf(ResolvedInputs) = {"input"}
    /\ Get(ResolvedInputs, "input") = Num(5)


(***************************************************************************)
(* Loop-body failure policy.                                               *)
(***************************************************************************)
\* the executeNode calls made from executeLoopBody that have ended, in order:
\* the k-th belongs to the k-th executeLoopBody call
BodyEnds == SelectSeq(log.events, LAMBDA e : e.kind = "end" /\ e.inLoop)
BodyFailed(e) == e.threw \/ ~e.result.success
\* the loop-processor executions that have ended (their results)
LoopEnds ==
    {log.events[i].result :
        i \in {k \in 1..Len(log.events) :
                  /\ log.events[k].kind = "end" /\ ~log.events[k].inLoop
                  /\ ~log.events[k].threw
                  /\ log.events[k].result.nodeType = LoopProcessor
                  /\ log.events[k].result.success}}
LoopNodeOf(r) == FindNode(currentWorkflow.nodes, r.nodeId)
FirstIndex(node) == IF node.data.loopType = "reduce" THEN 1 ELSE 0
CalledIndexes == {log.bodyCalls[k].index : k \in 1..Len(log.bodyCalls)}
FailedIndexes ==
    {log.bodyCalls[k].index : k \in {j \in 1..Len(BodyEnds) : BodyFailed(BodyEnds[j])}}
Smallest(S) == CHOOSE x \in S : \A y \in S : x <= y

\* a loop processor with a loop-body node has returned after some body call failed
BodyFailureCase(r) ==
    /\ getLoopBodyNode(currentWorkflow.nodes, r.nodeId).found
    /\ Len(BodyEnds) = Len(log.bodyCalls)
    /\ FailedIndexes # {}

\* C22: loop-body failure policy.  When the body node's execution fails inside
\* executeLoopBody the loop template gets an exception, not a value: with
\* breakOnError the loop makes no executeLoopBody call for an index after the
\* first failing one, without it the loop makes a call for every remaining
\* index; in both cases each failure is collected in the loop node's errors
\* output, failed items are not counted as processed, and the loop node's own
\* execution succeeds.
C22_LoopBodyFailurePolicy ==
    \A r \in LoopEnds :
        BodyFailureCase(r) =>
            LET node == LoopNodeOf(r)
                total == Get(r.outputs, "totalCount").n
                errors == Get(r.outputs, "errors")
            IN  /\ r.success
                /\ node.data.breakOnError =>
                      CalledIndexes = FirstIndex(node)..Smallest(FailedIndexes)
                /\ ~node.data.breakOnError =>
                      CalledIndexes = FirstIndex(node)..(total - 1)
                /\ IsArray(errors)
                /\ {errors.xs[k].n : k \in 1..Len(errors.xs)} = FailedIndexes
                /\ Len(errors.xs) = Cardinality(FailedIndexes)
                /\ Get(r.outputs, "processedCount").n =
                      Cardinality(CalledIndexes \ FailedIndexes)

\* breakOnError = false: the body failed on the first element, was called again
\* for the second, and the loop node succeeded with one collected error
C22_Witness ==
    \E r \in LoopEnds :
        /\ BodyFailureCase(r)
        /\ ~LoopNodeOf(r).data.breakOnError
        /\ Smallest(FailedIndexes) = FirstIndex(LoopNodeOf(r))
        /\ Cardinality(CalledIndexes) > 1
        /\ Cardinality(FailedIndexes) = 1
        /\ Len(log.bodyCalls) = Cardinality(CalledIndexes)


(***************************************************************************)
(* Filter with a loop-body branch.                                         *)
(***************************************************************************)
\* the body calls whose recorded output value is truthy, in call order
TruthyCalls ==
    SelectSeq([k \in 1..Len(BodyEnds) |-> k],
              LAMBDA k : /\ ~BodyFailed(BodyEnds[k])
                         /\ Truthy(Get(BodyEnds[k].result.outputs, "output")))

\* C23: filter with a loop-body branch.  For a loop processor of type filter
\* with a connected loop-body node, the output array holds, in original order,
\* exactly the elements for which the body node's recorded output value is
\* truthy; an element whose body output is falsy is left out.
C23_FilterKeepsTruthy ==
    \A r \in LoopEnds :
        (/\ LoopNodeOf(r).data.loopType = "filter"
         /\ getLoopBodyNode(currentWorkflow.nodes, r.nodeId).found
         /\ Len(BodyEnds) = Len(log.bodyCalls))
        => Get(r.outputs, "output") =
              Arr([j \in 1..Len(TruthyCalls) |-> log.bodyCalls[TruthyCalls[j]].element])


(***************************************************************************)
(* Loop path choice.                                                       *)
(***************************************************************************)
\* the loop node's loopBodyNode names a node of the workflow being run
NamesBodyNode(node) ==
    node.loopBodyNode # NoNode /\ node.loopBodyNode \in NodeIdsOf(currentWorkflow.nodes)
BodyCallsOf(id) == {k \in 1..Len(log.bodyCalls) : log.bodyCalls[k].loopNodeId = id}
ExprCallsOf(id) == {k \in 1..Len(log.exprCalls) : log.exprCalls[k].loopNodeId = id}
\* the elements the loop went through: the processed ones and the failed ones
HandledCount(r) ==
    Get(r.outputs, "processedCount").n +
       (IF IsArray(Get(r.outputs, "errors")) THEN Len(Get(r.outputs, "errors").xs) ELSE 0)

\* C24: loop path choice.  Within one execution of a loop processor the choice
\* is made once: when the loop node's loopBodyNode names a node of the workflow
\* being run, every element the loop went through was passed to
\* executeLoopBody and none to the expression fallback; otherwise every one was
\* passed to the expression fallback and executeLoopBody was never called.
C24_LoopPathChoice ==
    \A r \in LoopEnds :
        IF NamesBodyNode(LoopNodeOf(r))
        THEN /\ ExprCallsOf(r.nodeId) = {}
             /\ Cardinality(BodyCallsOf(r.nodeId)) = HandledCount(r)
        ELSE /\ BodyCallsOf(r.nodeId) = {}
             /\ Cardinality(ExprCallsOf(r.nodeId)) = HandledCount(r)
             /\ {log.exprCalls[k].index : k \in ExprCallsOf(r.nodeId)} =
                   FirstIndex(LoopNodeOf(r))..(Get(r.outputs, "totalCount").n - 1)

\* a loop with a loop-body node went through two elements, both by executeLoopBody
C24_Witness ==
    \E r \in LoopEnds :
        /\ NamesBodyNode(LoopNodeOf(r))
        /\ Cardinality(BodyCallsOf(r.nodeId)) = 2
        /\ HandledCount(r) = 2
        /\ log.exprCalls = <<>>


(***************************************************************************)
(* The graph is read-only to the engine.                                   *)
(***************************************************************************)
NoLoopContextInWorkflow ==
    \A i \in 1..Len(currentWorkflow.nodes) : currentWorkflow.nodes[i].loopContext = Undef

IncomingEdges(ed, id) == {k \in 1..Len(ed.edges) : ed.edges[k].target = id}
LoopBodyEdges(ed) == {k \in 1..Len(ed.edges) : ed.edges[k].sourceHandle = "loop-body"}
Handed(id) == FindNode(currentWorkflow.nodes, id)

\* C26: editor-to-engine hand-off.  In the workflow the run action passes to
\* executeWorkflow, every node with an incoming edge in the editor carries
\* parentNode equal to that edge's source, and a loop node and a loop-body node
\* connected through the loop-body handle carry loopBodyNode and isLoopBodyNode.
C26_HandOffCarriesPointers ==
    runs > 0 =>
        /\ \A k \in 1..Len(editor.edges) :
              Handed(editor.edges[k].target).parentNode = editor.edges[k].source
        /\ \A k \in LoopBodyEdges(editor) :
              /\ Handed(editor.edges[k].source).loopBodyNode = editor.edges[k].target
              /\ Handed(editor.edges[k].target).isLoopBodyNode

\* C27: editor single-parent invariant.  After any sequence of accepted
\* connections, edge removals and node deletions every node of the editor has at
\* most one incoming edge; its parentNode is the source of that edge when it
\* has one and is unset when it has none.
C27_EditorSingleParent ==
    \A i \in 1..Len(editor.nodes) :
        LET node == editor.nodes[i]
            incoming == IncomingEdges(editor, node.id)
        IN  /\ Cardinality(incoming) <= 1
            /\ \A k \in incoming : node.parentNode = editor.edges[k].source
            /\ incoming = {} => node.parentNode = NoNode


(***************************************************************************)
(* A successful run has only successful results.                           *)
(***************************************************************************)
\* C28: for every executeWorkflow run on a fresh executor that returns
\* success = true, every entry of the returned results map has success = true,
\* the entries of loop-body nodes written during loop iterations included.
C28_SuccessfulRunResults ==
    (CallReturned /\ ret.success) =>
        \A id \in DOMAIN ret.results : ret.results[id].success


(***************************************************************************)
(* The end node runs last.                                                 *)
(***************************************************************************)
\* the positions of log.events where the orchestrator's call for the end node
\* ended with success (finalOutput is captured right after)
EndNodeDone ==
    {i \in 1..Len(log.events) :
        /\ log.events[i].kind = "end" /\ ~log.events[i].inLoop /\ ~log.events[i].threw
        /\ log.events[i].result.nodeType = EndType
        /\ log.events[i].result.success}

\* C29: the end node runs last.  In every executeWorkflow run on a validated
\* graph the end node is the last node whose template is invoked: once the end
\* node has succeeded and finalOutput has been captured, no other node is
\* executed and the run does not fail.
C29_EndNodeRunsLast ==
    \A i \in EndNodeDone :
        /\ \A j \in (i + 1)..Len(log.events) : log.events[j].kind # "start"
        /\ CallReturned => ret.success


(***************************************************************************)
(* Overlapping runs on one executor.                                       *)
(***************************************************************************)
\* the two calls: the one that is running now and the one that is not
BothCalls == {[ret |-> ret, log |-> log], [ret |-> suspended.ret, log |-> suspended.log]}
\* the loop-body node of a loop node in the call's own graph
OwnBody(call, loopNodeId) == getLoopBodyNode(call.log.given.nodes, loopNodeId)

\* C30: overlapping runs on one executor do not interfere.  When a second
\* executeWorkflow call starts while the first awaits a node, each call's
\* returned results hold only entries of its own graph's nodes, and a loop node
\* of a call resolves its loop-body node against that call's graph: every
\* executeLoopBody call is for the body node its own graph names, and a loop
\* node takes the expression path only when its own graph names none.
C30_OverlappingRunsIsolated ==
    runs > 1 =>
        \A call \in BothCalls :
            /\ call.ret.state = "returned" =>
                  DOMAIN call.ret.results \subseteq NodeIdsOf(call.log.given.nodes)
            /\ \A k \in 1..Len(call.log.bodyCalls) :
                  LET c == call.log.bodyCalls[k]
                  IN  OwnBody(call, c.loopNodeId).found
                      /\ OwnBody(call, c.loopNodeId).node.id = c.bodyId
            /\ \A k \in 1..Len(call.log.exprCalls) :
                  ~OwnBody(call, call.log.exprCalls[k].loopNodeId).found

====
